---- MODULE Spec2Model ----
(***************************************************************************)
(* A model of the c-compiler pipeline: tokenizer.rs, parser.rs, ast.rs,    *)
(* symbol_table.rs, symantic_check.rs, cfg.rs, codegen.rs and main.rs.     *)
(*                                                                         *)
(* Source text is a sequence of one-character strings.  A Rust Result is   *)
(* a record whose kind is "Ok" or "Err"; a panic (assert!, expect, unwrap) *)
(* is a third kind, "Panic", because it never reaches the caller as a      *)
(* value.  An Option is a sequence of length 0 (None) or 1 (Some).         *)
(***************************************************************************)
EXTENDS Integers, Sequences, FiniteSets, TLC

VARIABLES
    src,            \* the source text handed to tokenize
    pc,             \* the stage of main the pipeline is at
    ptr,            \* tokenize: the scan position
    tokens,         \* tokenize: the Vec<Token> being built
    tokenize_result,\* what tokenize returned
    parser_pos,     \* Parser.pos when parse returned
    parse_result,   \* what parse returned
    check_result,   \* what check_syntax returned
    cfg_result,     \* what ControlFlowGraph::from returned
    asm_result,     \* what cfg_to_asm returned
    cfg_build       \* ControlFlowGraph::from: its context, block and loop position

vars == <<src, pc, ptr, tokens, tokenize_result, parser_pos, parse_result,
          check_result, cfg_result, asm_result, cfg_build>>

(***************************************************************************)
(* Bounds of the model.                                                    *)
(***************************************************************************)
MaxLen == 4         \* longest source text drawn from the whole alphabet
MaxDigits == 3      \* longest literal n in `int main() { int x = n; return x; }`
MaxPieces == 6      \* most pieces (if, else, end, return) in a generated function body
MaxBodyLen == 4     \* longest function body drawn from the token alphabet
MaxOps == 2         \* most binary operators in a generated expression
MaxParens == 1      \* most parenthesis pairs in a generated expression

None == <<>>
Some(x) == <<x>>
NotRun == [kind |-> "NotRun"]

Range(f) == {f[i] : i \in DOMAIN f}

RECURSIVE Str(_)
\* The string spelled by a sequence of characters.
Str(cs) == IF cs = <<>> THEN "" ELSE Head(cs) \o Str(Tail(cs))

SeqsUpTo(S, n) == UNION {[1..k -> S] : k \in 0..n}

(***************************************************************************)
(* Characters (the ASCII part of char::is_whitespace / is_alphanumeric).   *)
(***************************************************************************)
Digits == <<"0", "1", "2", "3", "4", "5", "6", "7", "8", "9">>
Letters == {"a", "b", "c", "d", "e", "f", "g", "h", "i", "j", "k", "l", "m",
            "n", "o", "p", "q", "r", "s", "t", "u", "v", "w", "x", "y", "z",
            "A", "B", "C", "D", "E", "F", "G", "H", "I", "J", "K", "L", "M",
            "N", "O", "P", "Q", "R", "S", "T", "U", "V", "W", "X", "Y", "Z"}
Quote == "\""

is_whitespace(c) == c \in {" ", "\t", "\n"}
is_digit(c) == c \in Range(Digits)
is_alphanumeric(c) == c \in Letters \/ is_digit(c)

DigitValue(c) == (CHOOSE i \in 1..10 : Digits[i] = c) - 1

(***************************************************************************)
(* str::parse::<u64> and the Display of a u64.                             *)
(***************************************************************************)
\* u64::MAX = 18446744073709551615, digit by digit
U64MaxDigits == <<1, 8, 4, 4, 6, 7, 4, 4, 0, 7, 3, 7, 0, 9, 5, 5, 1, 6, 1, 5>>

RECURSIVE StripZeros(_)
StripZeros(ds) ==
    IF ds # <<>> /\ Head(ds) = 0 THEN StripZeros(Tail(ds)) ELSE ds

RECURSIVE LexLeq(_, _)
\* ds <= es for digit sequences of the same length
LexLeq(ds, es) ==
    IF ds = <<>> THEN TRUE
    ELSE IF Head(ds) # Head(es) THEN Head(ds) < Head(es)
    ELSE LexLeq(Tail(ds), Tail(es))

\* the accumulated value stays within u64 (checked_mul / checked_add)
FitsU64(ds) ==
    LET n == StripZeros(ds) IN
    \/ Len(n) < Len(U64MaxDigits)
    \/ Len(n) = Len(U64MaxDigits) /\ LexLeq(n, U64MaxDigits)

RECURSIVE DecimalValue(_, _)
DecimalValue(ds, acc) ==
    IF ds = <<>> THEN acc ELSE DecimalValue(Tail(ds), acc * 10 + Head(ds))

\* substr.parse::<u64>() on a run of alphanumerics and underscores
parse_u64(cs) ==
    IF cs = <<>> \/ \E i \in 1..Len(cs) : ~is_digit(cs[i])
    THEN [kind |-> "Err"]
    ELSE LET ds == [i \in 1..Len(cs) |-> DigitValue(cs[i])] IN
         IF FitsU64(ds) THEN [kind |-> "Ok", value |-> DecimalValue(ds, 0)]
         ELSE [kind |-> "Err"]

RECURSIVE fmt_u64(_)
\* format!("{}", n) for an unsigned integer
fmt_u64(n) ==
    IF n < 10 THEN Digits[n + 1] ELSE fmt_u64(n \div 10) \o Digits[(n % 10) + 1]

(***************************************************************************)
(* tokenizer.rs                                                            *)
(***************************************************************************)
KEYWORDS == <<"int", "return", "if", "else">>
OPERATORS == << <<"+">>, <<"-">>, <<"=">>, <<"=", "=">> >>

OpenParen == [type |-> "OpenParen"]
CloseParen == [type |-> "CloseParen"]
OpenBrace == [type |-> "OpenBrace"]
CloseBrace == [type |-> "CloseBrace"]
Semicolon == [type |-> "Semicolon"]
Operator(s) == [type |-> "Operator", text |-> s]
Keyword(s) == [type |-> "Keyword", text |-> s]
Identifier(s) == [type |-> "Identifier", text |-> s]
IntegerLiteral(n) == [type |-> "IntegerLiteral", value |-> n]
StringLiteral(s) == [type |-> "StringLiteral", text |-> s]

TokOk(t, n) == [kind |-> "Ok", token |-> t, num_chars |-> n]
TokErr == [kind |-> "Err"]
TokPanic(m) == [kind |-> "Panic", msg |-> m]

\* operator_scan that stops at the first operator it has matched
operator_scan_first_match(s, p) ==
    IF \E i \in DOMAIN OPERATORS : <<s[1]>> = OPERATORS[i] THEN 1 ELSE 0

RECURSIVE operator_scan(_, _)
\* the while loop of tokenize_operator: the value of ptr when it ends
operator_scan(s, p) ==
    IF /\ p < Len(s)
       /\ \E i \in DOMAIN OPERATORS :
             /\ p + 1 <= Len(OPERATORS[i])
             /\ SubSeq(s, 1, p + 1) = SubSeq(OPERATORS[i], 1, p + 1)
    THEN operator_scan(s, p + 1)
    ELSE p

tokenize_operator(s) ==
    LET matched == SubSeq(s, 1, operator_scan(s, 0)) IN
    IF \E i \in DOMAIN OPERATORS : OPERATORS[i] = matched
    THEN TokOk(Operator(Str(matched)), Len(matched))
    ELSE TokErr

tokenize_string_literal(s) ==
    IF s[1] # Quote THEN TokErr
    ELSE LET found == {i \in 2..Len(s) : s[i] = Quote} IN
         IF found = {}
         THEN TokPanic("Tokenization Error: String Literal: missing matching quote.")
         ELSE LET next_quote_index == (CHOOSE i \in found : \A j \in found : i <= j) - 2
              IN TokOk(StringLiteral(Str(SubSeq(s, 2, next_quote_index + 1))),
                       next_quote_index + 2)

\* word_prefix that forgets the underscore
word_prefix_alphanumeric(s) ==
    LET stops == {i \in 1..Len(s) : ~is_alphanumeric(s[i])} IN
    IF stops = {} THEN s
    ELSE SubSeq(s, 1, (CHOOSE i \in stops : \A j \in stops : i <= j) - 1)

\* the prefix of s up to its first character that is neither alphanumeric nor '_'
word_prefix(s) ==
    LET stops == {i \in 1..Len(s) : ~(is_alphanumeric(s[i]) \/ s[i] = "_")} IN
    IF stops = {} THEN s
    ELSE SubSeq(s, 1, (CHOOSE i \in stops : \A j \in stops : i <= j) - 1)

tokenize_keywords_integers_ids(s) ==
    LET substr == word_prefix(s)
        as_int == parse_u64(substr)
    IN IF Len(substr) = 0 THEN TokErr
       ELSE IF Str(substr) \in Range(KEYWORDS)
       THEN TokOk(Keyword(Str(substr)), Len(substr))
       ELSE IF as_int.kind = "Ok"
       THEN TokOk(IntegerLiteral(as_int.value), Len(substr))
       ELSE TokOk(Identifier(Str(substr)), Len(substr))

\* the match on the current character in tokenize, s = &s[ptr..]
next_token(s) ==
    LET c == s[1] IN
    IF c = "(" THEN TokOk(OpenParen, 1)
    ELSE IF c = ")" THEN TokOk(CloseParen, 1)
    ELSE IF c = "{" THEN TokOk(OpenBrace, 1)
    ELSE IF c = "}" THEN TokOk(CloseBrace, 1)
    ELSE IF c = ";" THEN TokOk(Semicolon, 1)
    ELSE LET op == tokenize_operator(s) IN
         IF op.kind # "Err" THEN op
         ELSE LET str == tokenize_string_literal(s) IN
              IF str.kind # "Err" THEN str
              ELSE tokenize_keywords_integers_ids(s)

RECURSIVE tokenize_from(_, _, _)
\* tokenize as a function: the loop run to its end from position p
tokenize_from(s, p, toks) ==
    IF p >= Len(s) THEN [kind |-> "Ok", tokens |-> toks]
    ELSE IF is_whitespace(s[p + 1]) THEN tokenize_from(s, p + 1, toks)
    ELSE LET r == next_token(SubSeq(s, p + 1, Len(s))) IN
         IF r.kind = "Ok" THEN tokenize_from(s, p + r.num_chars, Append(toks, r.token))
         ELSE IF r.kind = "Panic" THEN r
         ELSE [kind |-> "Err", position |-> p, character |-> s[p + 1]]

tokenize(s) == tokenize_from(s, 0, <<>>)

(***************************************************************************)
(* ast.rs                                                                  *)
(***************************************************************************)
\* BinOp::from_token, as an Option
BinOp_from_token(token) ==
    IF token = Operator("+") THEN Some("Add")
    ELSE IF token = Operator("-") THEN Some("Sub")
    ELSE IF token = Operator("*") THEN Some("Mul")
    ELSE IF token = Operator("/") THEN Some("Div")
    ELSE IF token = Operator("=") THEN Some("Assign")
    ELSE IF token = Operator("==") THEN Some("Equals")
    ELSE None

precedence(op) ==
    CASE op = "Add" -> 30
      [] op = "Sub" -> 30
      [] op = "Mul" -> 40
      [] op = "Div" -> 40
      [] op = "Assign" -> 10
      [] op = "Equals" -> 20

\* Scope::from_statements that takes the counter's value before incrementing it
Scope_from_statements_post_increment(statements, counter) ==
    [scope |-> [id |-> counter, statements |-> statements],
     counter |-> counter + 1]

\* Scope::from_statements: the counter is incremented, the scope takes its new value
Scope_from_statements(statements, counter) ==
    [scope |-> [id |-> counter + 1, statements |-> statements],
     counter |-> counter + 1]

IntLiteral(n) == [k |-> "IntLiteral", value |-> n]
StringLiteralExpr(s) == [k |-> "StringLiteral", text |-> s]
Variable(name) == [k |-> "Variable", name |-> name]
BinaryOperation(op, left, right) ==
    [k |-> "BinaryOperation", op |-> op, left |-> left, right |-> right]

Return(e) == [k |-> "Return", expr |-> e]
Expression(e) == [k |-> "Expression", expr |-> e]
VarDeclare(name, var_type, value) ==
    [k |-> "VarDeclare", name |-> name, var_type |-> var_type, value |-> value]
If(condition, true_block, false_block) ==
    [k |-> "If", condition |-> condition, true_block |-> true_block,
     false_block |-> false_block]

TypeVoid == [t |-> "Void"]
TypeInt == [t |-> "Int"]
TypeChar == [t |-> "Char"]
UserDefined(name) == [t |-> "UserDefined", name |-> name]

Function(name, args, return_type, scope) ==
    [name |-> name, args |-> args, return_type |-> return_type, scope |-> scope]

(***************************************************************************)
(* parser.rs.  The Parser's fields pos and scope_id_counter are threaded   *)
(* through the results: an expression leaves the counter alone.            *)
(***************************************************************************)
POk(val, pos, ctr) == [ok |-> TRUE, val |-> val, pos |-> pos, ctr |-> ctr]
PErr(e) == [ok |-> FALSE, err |-> e]

\* Parser::peek: tokens.get(pos)
peek(toks, pos) == IF pos < Len(toks) THEN Some(toks[pos + 1]) ELSE None

\* Parser::expect: advance, then compare
expect(toks, pos, ctr, expected) ==
    LET t == peek(toks, pos) IN
    IF t = None THEN PErr(<<"Expected", expected, "but got nothing.">>)
    ELSE IF t[1] = expected THEN POk(expected, pos + 1, ctr)
    ELSE PErr(<<"Expected", expected, "but got", t[1]>>)

\* the ? of Rust: an Err returns at once, an Ok value goes on to rest
Try(r, rest(_)) == IF r.ok THEN rest(r) ELSE r

RECURSIVE parse_brace_block(_, _, _), brace_block_loop(_, _, _, _),
          parse_parenthesis(_, _, _), parse_primary_expression(_, _, _),
          parse_expression(_, _, _), parse_expression_precedence(_, _, _, _, _),
          bind_rhs(_, _, _, _, _), parse_variable_declaration(_, _, _),
          parse_if_else(_, _, _), parse_statement(_, _, _)

\* the while loop of parse_brace_block
brace_block_loop(toks, pos, ctr, brace_block) ==
    IF peek(toks, pos) = Some(CloseBrace) THEN POk(brace_block, pos, ctr)
    ELSE Try(parse_statement(toks, pos, ctr), LAMBDA r :
             brace_block_loop(toks, r.pos, r.ctr, Append(brace_block, r.val)))

parse_brace_block(toks, pos, ctr) ==
    Try(expect(toks, pos, ctr, OpenBrace), LAMBDA open :
    Try(brace_block_loop(toks, open.pos, ctr, <<>>), LAMBDA body :
    Try(expect(toks, body.pos, body.ctr, CloseBrace), LAMBDA close :
    POk(body.val, close.pos, body.ctr))))

parse_parenthesis(toks, pos, ctr) ==
    Try(expect(toks, pos, ctr, OpenParen), LAMBDA open :
    Try(parse_expression(toks, open.pos, ctr), LAMBDA inner :
    Try(expect(toks, inner.pos, ctr, CloseParen), LAMBDA close :
    POk(inner.val, close.pos, ctr))))

parse_primary_expression(toks, pos, ctr) ==
    LET t == peek(toks, pos) IN
    IF t # None /\ t[1].type = "IntegerLiteral"
    THEN POk(IntLiteral(t[1].value), pos + 1, ctr)
    ELSE IF t # None /\ t[1].type = "StringLiteral"
    THEN POk(StringLiteralExpr(t[1].text), pos + 1, ctr)
    ELSE IF t # None /\ t[1].type = "Identifier"
    THEN POk(Variable(t[1].text), pos + 1, ctr)
    ELSE IF t = Some(OpenParen) THEN parse_parenthesis(toks, pos, ctr)
    ELSE PErr(<<"Error parsing token", t, "at position", pos>>)

parse_expression(toks, pos, ctr) ==
    Try(parse_primary_expression(toks, pos, ctr), LAMBDA lhs :
    parse_expression_precedence(toks, lhs.pos, ctr, lhs.val, 0))

\* the operator at the cursor, if the token there is one
peek_op(toks, pos) ==
    LET token == peek(toks, pos)
    IN IF token = None THEN None ELSE BinOp_from_token(token[1])

\* bind_rhs that also recurses on an operator of equal precedence
bind_rhs_equal_too(toks, pos, ctr, rhs, op) ==
    LET next_op == peek_op(toks, pos)
    IN IF next_op # None /\ precedence(next_op[1]) >= precedence(op)
       THEN Try(parse_expression_precedence(toks, pos, ctr, rhs, precedence(next_op[1])),
                LAMBDA r : bind_rhs(toks, r.pos, ctr, r.val, op))
       ELSE POk(rhs, pos, ctr)

\* the inner while loop: bind rhs to the operators that follow while they
\* bind tighter than op
bind_rhs(toks, pos, ctr, rhs, op) ==
    LET next_op == peek_op(toks, pos)
    IN IF next_op # None /\ precedence(next_op[1]) > precedence(op)
       THEN Try(parse_expression_precedence(toks, pos, ctr, rhs, precedence(next_op[1])),
                LAMBDA r : bind_rhs(toks, r.pos, ctr, r.val, op))
       ELSE POk(rhs, pos, ctr)

\* the outer while loop, one iteration per call
parse_expression_precedence(toks, pos, ctr, lhs, min_precedence) ==
    LET op == peek_op(toks, pos)
    IN IF op # None /\ precedence(op[1]) >= min_precedence
       THEN Try(parse_primary_expression(toks, pos + 1, ctr), LAMBDA first :
            Try(bind_rhs(toks, first.pos, ctr, first.val, op[1]), LAMBDA rhs :
            parse_expression_precedence(toks, rhs.pos, ctr,
                BinaryOperation(op[1], lhs, rhs.val), min_precedence)))
       ELSE POk(lhs, pos, ctr)

\* the type a declaration starts with
parse_type(t1) ==
    IF t1 = Some(Keyword("void")) THEN Some(TypeVoid)
    ELSE IF t1 = Some(Keyword("int")) THEN Some(TypeInt)
    ELSE IF t1 = Some(Keyword("char")) THEN Some(TypeChar)
    ELSE IF t1 # None /\ t1[1].type = "Identifier" THEN Some(UserDefined(t1[1].text))
    ELSE None

parse_variable_declaration(toks, pos, ctr) ==
    LET t1 == peek(toks, pos)
        t2 == peek(toks, pos + 1)
        var_type == parse_type(t1)
    IN IF var_type = None
       THEN PErr(<<"Error parsing type from token", t1, "at position", pos>>)
       ELSE IF t2 = None \/ t2[1].type # "Identifier"
       THEN PErr(<<"Error parsing variable name from token", t2, "at position", pos + 1>>)
       ELSE IF peek(toks, pos + 2) = Some(Semicolon)
       THEN POk(VarDeclare(t2[1].text, var_type[1], None), pos + 3, ctr)
       ELSE Try(expect(toks, pos + 2, ctr, Operator("=")), LAMBDA eq :
            Try(parse_expression(toks, eq.pos, ctr), LAMBDA e :
            Try(expect(toks, e.pos, ctr, Semicolon), LAMBDA semi :
            POk(VarDeclare(t2[1].text, var_type[1], Some(e.val)), semi.pos, ctr))))

\* Some(scope) of a block's statements, numbered by the counter the block left
numbered_block(block) ==
    LET s == Scope_from_statements(block.val, block.ctr)
    IN POk(Some(s.scope), block.pos, s.counter)

\* the else part of parse_if_else: the false branch's scope is built, and
\* numbered, here
parse_else(toks, pos, ctr) ==
    IF peek(toks, pos) = Some(Keyword("else"))
    THEN Try(expect(toks, pos, ctr, Keyword("else")), LAMBDA kw :
         Try(parse_brace_block(toks, kw.pos, ctr), LAMBDA block :
         numbered_block(block)))
    ELSE POk(None, pos, ctr)

\* Statement::If with the true branch's scope numbered by counter ctr
if_statement(condition, true_statements, false_block, pos, ctr) ==
    LET t == Scope_from_statements(true_statements, ctr)
    IN POk(If(condition, t.scope, false_block), pos, t.counter)

\* parse_if_else that numbers the true branch as soon as its block is parsed
parse_if_else_true_first(toks, pos, ctr) ==
    Try(expect(toks, pos, ctr, Keyword("if")), LAMBDA kw :
    Try(expect(toks, kw.pos, ctr, OpenParen), LAMBDA open :
    Try(parse_expression(toks, open.pos, ctr), LAMBDA condition :
    Try(expect(toks, condition.pos, ctr, CloseParen), LAMBDA close :
    Try(parse_brace_block(toks, close.pos, ctr), LAMBDA true_statements :
    Try(if_statement(condition.val, true_statements.val, None,
                     true_statements.pos, true_statements.ctr), LAMBDA t :
    Try(parse_else(toks, t.pos, t.ctr), LAMBDA false_statements :
    POk(If(condition.val, t.val.true_block, false_statements.val),
        false_statements.pos, false_statements.ctr))))))))

parse_if_else(toks, pos, ctr) ==
    Try(expect(toks, pos, ctr, Keyword("if")), LAMBDA kw :
    Try(expect(toks, kw.pos, ctr, OpenParen), LAMBDA open :
    Try(parse_expression(toks, open.pos, ctr), LAMBDA condition :
    Try(expect(toks, condition.pos, ctr, CloseParen), LAMBDA close :
    Try(parse_brace_block(toks, close.pos, ctr), LAMBDA true_statements :
    Try(parse_else(toks, true_statements.pos, true_statements.ctr),
        LAMBDA false_statements :
    if_statement(condition.val, true_statements.val, false_statements.val,
                 false_statements.pos, false_statements.ctr)))))))

parse_statement(toks, pos, ctr) ==
    LET token == peek(toks, pos)
        next_token_ == peek(toks, pos + 1)
    IN IF token = Some(Keyword("return"))
       THEN Try(parse_expression(toks, pos + 1, ctr), LAMBDA e :
            Try(expect(toks, e.pos, ctr, Semicolon), LAMBDA semi :
            POk(Return(e.val), semi.pos, ctr)))
       ELSE IF token = Some(Keyword("if")) THEN parse_if_else(toks, pos, ctr)
       ELSE IF \/ token = Some(Keyword("int"))
               \/ token = Some(Keyword("char"))
               \/ /\ token # None /\ token[1].type = "Identifier"
                  /\ next_token_ # None /\ next_token_[1].type = "Identifier"
       THEN parse_variable_declaration(toks, pos, ctr)
       ELSE IF token = None THEN PErr(<<"End of input.">>)
       ELSE Try(parse_expression(toks, pos, ctr), LAMBDA e :
            Try(expect(toks, e.pos, ctr, Semicolon), LAMBDA semi :
            POk(Expression(e.val), semi.pos, ctr)))

\* tokenize("int main()")
expected_prefix == <<Keyword("int"), Identifier("main"), OpenParen, CloseParen>>

\* parse: the two assertions, then the function body with a fresh Parser
\* (pos 0, counter 0); pos is the Parser's cursor when parse returns
parse(toks) ==
    IF Len(toks) < Len(expected_prefix)
    THEN [kind |-> "Panic", msg |-> "range end index out of range", pos |-> 0]
    ELSE IF SubSeq(toks, 1, Len(expected_prefix)) # expected_prefix
    THEN [kind |-> "Panic", msg |-> "assertion failed: prefix", pos |-> 0]
    ELSE IF toks[Len(toks)] # CloseBrace
    THEN [kind |-> "Panic", msg |-> "assertion failed: last token", pos |-> 0]
    ELSE LET function_body_tokens == SubSeq(toks, Len(expected_prefix) + 1, Len(toks))
             function_body == parse_brace_block(function_body_tokens, 0, 0)
         IN IF ~function_body.ok
            THEN [kind |-> "Err", err |-> function_body.err, pos |-> 0]
            ELSE [kind |-> "Ok",
                  declarations |->
                      <<Function("main", <<>>, TypeInt,
                                 Scope_from_statements(function_body.val,
                                                       function_body.ctr).scope)>>,
                  pos |-> function_body.pos]

(***************************************************************************)
(* symbol_table.rs.  A SymbolTable is a record of two maps: vars, keyed by *)
(* <<scope id, variable name>>, and scope_tree, from a scope id to its     *)
(* parent's.  A HashMap is a function; insert and extend overwrite.        *)
(***************************************************************************)
VarInfo(name, var_type) == [name |-> name, var_type |-> var_type]

SymbolTable_new == [vars |-> <<>>, scope_tree |-> <<>>]

RECURSIVE SymbolTable_get(_, _, _)
SymbolTable_get(table, scope_id, var_name) ==
    IF <<scope_id, var_name>> \in DOMAIN table.vars
    THEN Some(table.vars[<<scope_id, var_name>>])
    ELSE IF scope_id \in DOMAIN table.scope_tree
    THEN SymbolTable_get(table, table.scope_tree[scope_id], var_name)
    ELSE None

SymbolTable_insert(table, scope_id, var_name, var_info) ==
    IF SymbolTable_get(table, scope_id, var_name) # None
    THEN [kind |-> "Err",
          err |-> "Duplicate insertion of variable " \o var_name
                  \o " into scope " \o fmt_u64(scope_id) \o "."]
    ELSE [kind |-> "Ok",
          table |-> [table EXCEPT !.vars = (<<scope_id, var_name>> :> var_info) @@ @]]

SymbolTable_merge(table, other) ==
    [vars |-> other.vars @@ table.vars,
     scope_tree |-> other.scope_tree @@ table.scope_tree]

RECURSIVE SymbolTable_from_scope(_), from_scope_loop(_, _, _),
          SymbolTable_add_child_scope(_, _, _)

\* returns the Result and the table as the call leaves it
SymbolTable_add_child_scope(table, parent_id, child) ==
    LET child_table == SymbolTable_from_scope(child) IN
    IF child_table.kind = "Err"
    THEN [kind |-> "Err", err |-> child_table.err, table |-> table]
    ELSE [kind |-> "Ok",
          table |-> [SymbolTable_merge(table, child_table.table)
                        EXCEPT !.scope_tree = (child.id :> parent_id) @@ @]]

\* the for loop of from_scope over statements[i..]; the Result of
\* add_child_scope is dropped by the caller
from_scope_loop(table, scope, i) ==
    IF i > Len(scope.statements) THEN [kind |-> "Ok", table |-> table]
    ELSE LET s == scope.statements[i] IN
         IF s.k = "VarDeclare"
         THEN LET r == SymbolTable_insert(table, scope.id, s.name,
                                          VarInfo(s.name, s.var_type))
              IN IF r.kind = "Err" THEN r ELSE from_scope_loop(r.table, scope, i + 1)
         ELSE IF s.k = "If"
         THEN LET t == SymbolTable_add_child_scope(table, scope.id, s.true_block).table
                  f == IF s.false_block # None
                       THEN SymbolTable_add_child_scope(t, scope.id, s.false_block[1]).table
                       ELSE t
              IN from_scope_loop(f, scope, i + 1)
         ELSE from_scope_loop(table, scope, i + 1)

SymbolTable_from_scope(scope) == from_scope_loop(SymbolTable_new, scope, 1)

SymbolTable_from_function(dec) == SymbolTable_from_scope(dec.scope)

(***************************************************************************)
(* symantic_check.rs.  A check returns None, or Some(error message).       *)
(***************************************************************************)
RECURSIVE check_scope_expr(_, _, _), check_scope(_, _), check_scope_loop(_, _, _)

check_scope_expr(expr, scope_id, symbol_table) ==
    IF expr.k = "BinaryOperation"
    THEN LET l == check_scope_expr(expr.left, scope_id, symbol_table) IN
         IF l # None THEN l
         ELSE check_scope_expr(expr.right, scope_id, symbol_table)
    ELSE IF expr.k = "Variable"
    THEN IF SymbolTable_get(symbol_table, scope_id, expr.name) = None
         THEN Some("Undefined variable " \o expr.name \o " in scope "
                   \o fmt_u64(scope_id))
         ELSE None
    ELSE None

check_scope_loop(scope, symbol_table, i) ==
    IF i > Len(scope.statements) THEN None
    ELSE LET s == scope.statements[i]
             r == IF s.k \in {"Return", "Expression"}
                  THEN check_scope_expr(s.expr, scope.id, symbol_table)
                  ELSE IF s.k = "VarDeclare" /\ s.value # None
                  THEN check_scope_expr(s.value[1], scope.id, symbol_table)
                  ELSE IF s.k = "If"
                  THEN LET c == check_scope_expr(s.condition, scope.id, symbol_table) IN
                       IF c # None THEN c
                       ELSE LET t == check_scope(s.true_block, symbol_table) IN
                            IF t # None THEN t
                            ELSE IF s.false_block # None
                            THEN check_scope(s.false_block[1], symbol_table)
                            ELSE None
                  ELSE None
         IN IF r # None THEN r ELSE check_scope_loop(scope, symbol_table, i + 1)

check_scope(scope, symbol_table) == check_scope_loop(scope, symbol_table, 1)

check_syntax(declarations) ==
    IF Len(declarations) # 1
    THEN [kind |-> "Panic", msg |-> "assertion failed: declarations.len() == 1"]
    ELSE LET symbol_table == SymbolTable_from_function(declarations[1]) IN
         IF symbol_table.kind = "Err" THEN symbol_table
         ELSE LET r == check_scope(declarations[1].scope, symbol_table.table) IN
              IF r # None THEN [kind |-> "Err", err |-> r[1]]
              ELSE [kind |-> "Ok", table |-> symbol_table.table]

(***************************************************************************)
(* cfg.rs                                                                  *)
(***************************************************************************)
CfgAssign(var, value) == [k |-> "Assign", var |-> var, value |-> value]
CfgReturn(var) == [k |-> "Return", var |-> var]

CFGBuildContext_new == [var_counter |-> 0, var_map |-> <<>>]

\* inc that formats the name from the counter before incrementing it
CFGBuildContext_inc_name_first(context) ==
    [context |-> [context EXCEPT !.var_counter = @ + 1],
     name |-> "v" \o fmt_u64(context.var_counter)]

\* CFGBuildContext::inc: the context after the call and the name returned
CFGBuildContext_inc(context) ==
    [context |-> [context EXCEPT !.var_counter = @ + 1],
     name |-> "v" \o fmt_u64(context.var_counter + 1)]

CFGBuildContext_register_var(context, var) ==
    LET a == CFGBuildContext_inc(context) IN
    [a.context EXCEPT !.var_map = (var :> a.name) @@ @]

CFGBuildContext_lookup(context, var) ==
    IF var \in DOMAIN context.var_map THEN Some(context.var_map[var]) ELSE None

CfgOk(stmts, context) == [kind |-> "Ok", stmts |-> stmts, context |-> context]
CfgErr(e, context) == [kind |-> "Err", err |-> e, context |-> context]
CfgPanic(m) == [kind |-> "Panic", msg |-> m]

process_var_declare(stmt, context) ==
    IF stmt.k # "VarDeclare" THEN CfgErr("Expected a VarDeclare", context)
    ELSE IF stmt.var_type # TypeInt THEN CfgPanic("assertion failed: var_type == Int")
    ELSE LET registered == CFGBuildContext_register_var(context, stmt.name)
             cfg_var_name == CFGBuildContext_lookup(registered, stmt.name)
             unwrapped == IF stmt.value # None THEN stmt.value[1] ELSE IntLiteral(0)
         IN IF cfg_var_name = None THEN CfgPanic("expect: lookup")
            ELSE IF unwrapped.k = "IntLiteral"
            THEN CfgOk(<<CfgAssign(cfg_var_name[1], unwrapped.value)>>, registered)
            ELSE CfgErr("Expected an IntLiteral", registered)

\* process_return that makes a fresh name for a returned variable too
process_return_fresh_name(stmt, context) ==
    IF stmt.k # "Return" THEN CfgErr("", context)
    ELSE IF stmt.expr.k \in {"IntLiteral", "Variable"}
    THEN LET a == CFGBuildContext_inc(context) IN
         IF stmt.expr.k = "IntLiteral"
         THEN CfgOk(<<CfgAssign(a.name, stmt.expr.value), CfgReturn(a.name)>>, a.context)
         ELSE CfgOk(<<CfgReturn(a.name)>>, a.context)
    ELSE CfgErr("", context)

process_return(stmt, context) ==
    IF stmt.k # "Return" THEN CfgErr("", context)
    ELSE IF stmt.expr.k = "IntLiteral"
    THEN LET a == CFGBuildContext_inc(context) IN
         CfgOk(<<CfgAssign(a.name, stmt.expr.value), CfgReturn(a.name)>>, a.context)
    ELSE IF stmt.expr.k = "Variable"
    THEN LET cfg_var_name == CFGBuildContext_lookup(context, stmt.expr.name) IN
         IF cfg_var_name = None THEN CfgPanic("expect: lookup")
         ELSE CfgOk(<<CfgReturn(cfg_var_name[1])>>, context)
    ELSE CfgErr("", context)

process(stmt, context) ==
    IF stmt.k = "VarDeclare" THEN process_var_declare(stmt, context)
    ELSE IF stmt.k = "Return" THEN process_return(stmt, context)
    ELSE CfgErr("Not Implemented", context)

RECURSIVE cfg_from_loop(_, _, _, _)
\* the for loop of ControlFlowGraph::from over statements[i..]: expect("")
\* turns an Err of process into a panic
cfg_from_loop(statements, i, context, block) ==
    IF i > Len(statements) THEN [kind |-> "Ok", cfg |-> (0 :> block)]
    ELSE LET r == process(statements[i], context) IN
         IF r.kind = "Ok"
         THEN cfg_from_loop(statements, i + 1, r.context, block \o r.stmts)
         ELSE IF r.kind = "Err" THEN CfgPanic("expect: " \o r.err)
         ELSE r

ControlFlowGraph_from(declarations) ==
    IF Len(declarations) # 1 THEN CfgPanic("assertion failed: declarations.len() == 1")
    ELSE IF declarations[1].name # "main" THEN CfgPanic("assertion failed: name == main")
    ELSE IF Len(declarations[1].args) # 0 THEN CfgPanic("assertion failed: args.len() == 0")
    ELSE IF declarations[1].return_type # TypeInt
    THEN CfgPanic("assertion failed: return_type == Int")
    ELSE cfg_from_loop(declarations[1].scope.statements, 1, CFGBuildContext_new, <<>>)

(***************************************************************************)
(* codegen.rs                                                              *)
(***************************************************************************)
ASM_HEADER == <<".global main", "main:">>

\* impl Display for RegisterGP
RegisterGP_fmt(r) ==
    CASE r = "RBX" -> "rbx"
      [] r = "RCX" -> "rcx"
      [] r = "RDX" -> "rdx"
      [] r = "R9" -> "r9"
      [] r = "R10" -> "r10"
      [] r = "R11" -> "r11"
      [] r = "R12" -> "r12"
      [] r = "R13" -> "r13"
      [] r = "R14" -> "r14"
      [] r = "R15" -> "r15"
      [] OTHER -> ""

\* var_to_reg with a sixth name, mapped to R10
var_to_reg_sixth(var) ==
    CASE var = "v1" -> [kind |-> "Ok", reg |-> "RBX"]
      [] var = "v2" -> [kind |-> "Ok", reg |-> "RCX"]
      [] var = "v3" -> [kind |-> "Ok", reg |-> "RDX"]
      [] var = "v4" -> [kind |-> "Ok", reg |-> "R8"]
      [] var = "v5" -> [kind |-> "Ok", reg |-> "R9"]
      [] var = "v6" -> [kind |-> "Ok", reg |-> "R10"]
      [] OTHER -> [kind |-> "Err", err |-> "Could not map var " \o var]

var_to_reg(var) ==
    CASE var = "v1" -> [kind |-> "Ok", reg |-> "RBX"]
      [] var = "v2" -> [kind |-> "Ok", reg |-> "RCX"]
      [] var = "v3" -> [kind |-> "Ok", reg |-> "RDX"]
      [] var = "v4" -> [kind |-> "Ok", reg |-> "R8"]
      [] var = "v5" -> [kind |-> "Ok", reg |-> "R9"]
      [] OTHER -> [kind |-> "Err", err |-> "Could not map var " \o var]

assign_to_asm(var, value) ==
    LET r == var_to_reg(var) IN
    IF r.kind = "Err" THEN r
    ELSE [kind |-> "Ok",
          lines |-> <<"mov $" \o fmt_u64(value) \o ", %" \o RegisterGP_fmt(r.reg)>>]

return_to_asm(var) ==
    LET r == var_to_reg(var) IN
    IF r.kind = "Err" THEN r
    ELSE [kind |-> "Ok", lines |-> <<"mov %" \o RegisterGP_fmt(r.reg) \o ", %rax">>]

RECURSIVE cfg_to_asm_loop(_, _, _)
\* the for loop of cfg_to_asm over block[i..]
cfg_to_asm_loop(block, i, asm) ==
    IF i > Len(block) THEN [kind |-> "Ok", lines |-> asm]
    ELSE LET s == block[i]
             statement_asm == IF s.k = "Assign" THEN assign_to_asm(s.var, s.value)
                              ELSE IF s.k = "Return" THEN return_to_asm(s.var)
                              ELSE [kind |-> "Err", err |-> ""]
         IN IF statement_asm.kind = "Err" THEN statement_asm
            ELSE cfg_to_asm_loop(block, i + 1, asm \o statement_asm.lines)

cfg_to_asm(cfg) ==
    IF Cardinality(DOMAIN cfg) # 1 THEN [kind |-> "Panic", msg |-> "assertion failed: cfg.len() == 1"]
    ELSE IF 0 \notin DOMAIN cfg THEN [kind |-> "Panic", msg |-> "assertion failed: contains_key(0)"]
    ELSE cfg_to_asm_loop(cfg[0], 1, ASM_HEADER)

(***************************************************************************)
(* Inputs: source texts.                                                   *)
(***************************************************************************)
\* `int main() { int x = `
ReturnHead ==
    <<"i", "n", "t", " ", "m", "a", "i", "n", "(", ")", " ", "{", " ", "i",
      "n", "t", " ", "x", " ", "=", " ">>

\* `; return x; }`
ReturnTail ==
    <<";", " ", "r", "e", "t", "u", "r", "n", " ", "x", ";", " ", "}">>

\* parser.rs test_precedence
PrecedenceText ==
    <<"i", "n", "t", " ", "m", "a", "i", "n", "(", ")", " ", "{", " ", "x",
      " ", "=", " ", "1", " ", "+", " ", "2", " ", "*", " ", "3", ";", " ",
      "x", " ", "=", " ", "1", " ", "*", " ", "2", " ", "+", " ", "3", ";",
      " ", "}">>

\* parser.rs test_parens
ParensText ==
    <<"i", "n", "t", " ", "m", "a", "i", "n", "(", ")", " ", "{", " ", "x",
      " ", "=", " ", "(", "(", "1", " ", "+", " ", "2", ")", " ", "*", " ",
      "3", ")", ";", " ", "}">>

\* parser.rs test_if_else
IfElseText ==
    <<"i", "n", "t", " ", "m", "a", "i", "n", "(", ")", " ", "{", " ", "i",
      "f", "(", "x", ")", "{", " ", "r", "e", "t", "u", "r", "n", " ", "1",
      ";", " ", "}", "e", "l", "s", "e", "{", " ", "r", "e", "t", "u", "r",
      "n", " ", "0", ";", " ", "}", "}">>

\* parser.rs test_if
IfText ==
    <<"i", "n", "t", " ", "m", "a", "i", "n", "(", ")", " ", "{", " ", "i",
      "f", "(", "x", ")", " ", "{", " ", "r", "e", "t", "u", "r", "n", " ",
      "0", ";", " ", "}", " ", "r", "e", "t", "u", "r", "n", " ", "1", ";",
      "}">>

\* parser.rs test_variable_declaration
VariableDeclarationText ==
    <<"i", "n", "t", " ", "m", "a", "i", "n", "(", ")", " ", "{", " ", "i",
      "n", "t", " ", "x", ";", " ", "i", "n", "t", " ", "y", " ", "=", " ",
      "x", ";", " ", "M", "y", "T", "y", "p", "e", " ", "z", " ", "=", " ",
      "\"", "v", "a", "l", "u", "e", " ", "o", "f", " ", "z", "\"", ";",
      " ", "}">>

\* tokenizer.rs test_symbols
SymbolsText ==
    <<"(", ")", "{", "}", ";">>

\* tokenizer.rs test_operators
OperatorsText ==
    <<"+", "-", "=", "=", "=">>

\* tokenizer.rs test_keywords_and_identifiers
KeywordsText ==
    <<"i", "n", "t", " ", "r", "e", "t", "u", "r", "n", " ", "i", "f", " ",
      "e", "l", "s", "e", " ", "m", "y", "_", "i", "d", "e", "n", "t", "i",
      "f", "i", "e", "r", "1", "2", "3">>

\* tokenizer.rs test_literals
LiteralsText ==
    <<"1", "0", "0", " ", "\"", "M", "y", "_", "S", "t", "r", "i", "n",
      "g", "\"">>

\* a body followed by one more closing brace
TrailingText ==
    <<"i", "n", "t", " ", "m", "a", "i", "n", "(", ")", " ", "{", " ", "r",
      "e", "t", "u", "r", "n", " ", "0", ";", " ", "}", " ", "}">>

\* u64::MAX + 1
U64MaxPlusOneText ==
    <<"1", "8", "4", "4", "6", "7", "4", "4", "0", "7", "3", "7", "0", "9",
      "5", "5", "1", "6", "1", "6">>

\* a digit run of 21 nines
TwentyOneNinesText ==
    <<"9", "9", "9", "9", "9", "9", "9", "9", "9", "9", "9", "9", "9", "9",
      "9", "9", "9", "9", "9", "9", "9">>

\* 24 digits, value 7
LeadingZerosText ==
    <<"0", "0", "0", "0", "0", "0", "0", "0", "0", "0", "0", "0", "0", "0",
      "0", "0", "0", "0", "0", "0", "0", "0", "0", "7">>

\* a string literal that is never closed
UnterminatedText ==
    <<"i", "n", "t", " ", "m", "a", "i", "n", "(", ")", " ", "{", " ", "r",
      "e", "t", "u", "r", "n", " ", "\"", "a", "b", "c", ";", " ", "}">>

\* the characters short source texts are made of
Alphabet == {"i", "f", "1", "_", "=", "*", Quote, " "}
\* the digits the literal n is made of
LiteralDigits == {"0", "1", "2", "3"}

ReturnText(n) == ReturnHead \o n \o ReturnTail

\* `int main() { <type word> c; }`
DeclarationText(type_word) ==
    SubSeq(ReturnHead, 1, 13) \o type_word \o <<" ", "c", ";", " ", "}">>
Literals == SeqsUpTo(LiteralDigits, MaxDigits) \ {<<>>}

NamedTexts ==
    {PrecedenceText, ParensText, IfElseText, IfText, VariableDeclarationText,
     SymbolsText, OperatorsText, KeywordsText, LiteralsText, TrailingText,
     U64MaxPlusOneText, TwentyOneNinesText, LeadingZerosText, UnterminatedText,
     ReturnText(U64MaxPlusOneText),
     \* `int main() { int x = 1; }` and `int main() { int x = 1; return x; int y; }`
     ReturnHead \o <<"1", ";", " ", "}">>,
     ReturnHead \o <<"1">> \o SubSeq(ReturnTail, 1, 12)
         \o <<"i", "n", "t", " ", "y", ";", " ", "}">>,
     DeclarationText(<<"i", "n", "t">>), DeclarationText(<<"c", "h", "a", "r">>),
     DeclarationText(<<"v", "o", "i", "d">>), DeclarationText(<<"T">>)}

\* src is one of the source texts main is run on
IsSource(s) ==
    \/ s \in SeqsUpTo(Alphabet, MaxLen)
    \/ \E n \in Literals : s = ReturnText(n)
    \/ s \in NamedTexts

(***************************************************************************)
(* Inputs: token sequences for parse.                                      *)
(***************************************************************************)
\* the pieces function bodies are made of, each a run of tokens
Pieces == {"if", "else", "end", "return"}

PieceTokens(piece) ==
    CASE piece = "if" ->
            <<Keyword("if"), OpenParen, Identifier("x"), CloseParen, OpenBrace>>
      [] piece = "else" -> <<CloseBrace, Keyword("else"), OpenBrace>>
      [] piece = "end" -> <<CloseBrace>>
      [] piece = "return" -> <<Keyword("return"), IntegerLiteral(1), Semicolon>>

RECURSIVE BodyOf(_)
\* `{`, the tokens of the pieces, `}`
BodyOf(pieces) ==
    IF pieces = <<>> THEN <<CloseBrace>>
    ELSE PieceTokens(Head(pieces)) \o BodyOf(Tail(pieces))


BodyAlphabet == {OpenBrace, CloseBrace, Semicolon, Keyword("return"), IntegerLiteral(1)}

\* parser.rs test_if_else and test_if
IfElseTokens == tokenize(IfElseText).tokens
IfTokens == tokenize(IfText).tokens

\* toks is one of the token sequences parse is run on
IsTokenInput(toks) ==
    \/ \E ps \in SeqsUpTo(Pieces, MaxPieces) :
           toks = expected_prefix \o <<OpenBrace>> \o BodyOf(ps)
    \/ \E b \in SeqsUpTo(BodyAlphabet, MaxBodyLen) :
           toks \in {b, expected_prefix \o b}
    \/ toks \in {IfElseTokens, IfTokens}

(***************************************************************************)
(* Inputs: token sequences for parse_expression.                           *)
(***************************************************************************)
OperatorTokens ==
    {Operator("+"), Operator("-"), Operator("*"), Operator("/"), Operator("="),
     Operator("==")}

Operands ==
    <<IntegerLiteral(1), Identifier("x"), IntegerLiteral(2), StringLiteral("s"),
      Identifier("y"), IntegerLiteral(3)>>
Operand(i) == Operands[((i - 1) % Len(Operands)) + 1]

Repeat(t, n) == [k \in 1..n |-> t]

RECURSIVE ExprFrom(_, _, _)
\* operand i, operator i, operand i+1, ...; a pair <<a, b>> of parens puts
\* operands a..b in parentheses
ExprFrom(ops, parens, i) ==
    LET operand == Repeat(OpenParen, Cardinality({r \in parens : r[1] = i}))
                   \o <<Operand(i)>>
                   \o Repeat(CloseParen, Cardinality({r \in parens : r[2] = i}))
    IN IF i > Len(ops) THEN operand
       ELSE operand \o <<ops[i]>> \o ExprFrom(ops, parens, i + 1)

RECURSIVE ParenSets(_, _)
\* the sets of at most k of the pairs
ParenSets(pairs, k) ==
    IF k = 0 THEN {{}}
    ELSE LET fewer == ParenSets(pairs, k - 1)
         IN fewer \cup {P \cup {r} : P \in fewer, r \in pairs}

ParenChoices(n) == ParenSets({r \in (1..n) \X (1..n) : r[1] <= r[2]}, MaxParens)

\* ( 1 + x ) * 2 - "s"
ParenFirstExpr ==
    <<OpenParen, IntegerLiteral(1), Operator("+"), Identifier("x"), CloseParen,
      Operator("*"), IntegerLiteral(2), Operator("-"), StringLiteral("s")>>

\* x = 1 + 2 * 3 == y
FourLevelsExpr ==
    <<Identifier("x"), Operator("="), IntegerLiteral(1), Operator("+"),
      IntegerLiteral(2), Operator("*"), IntegerLiteral(3), Operator("=="),
      Identifier("y")>>

\* 1 * 2 + 3 / 4 - 5
TermsExpr ==
    <<IntegerLiteral(1), Operator("*"), IntegerLiteral(2), Operator("+"),
      IntegerLiteral(3), Operator("/"), IntegerLiteral(4), Operator("-"),
      IntegerLiteral(5)>>

\* 1 - 2 + 3 - 4
ChainExpr ==
    <<IntegerLiteral(1), Operator("-"), IntegerLiteral(2), Operator("+"),
      IntegerLiteral(3), Operator("-"), IntegerLiteral(4)>>

\* ( ( 1 + 2 ) * ( 3 - 4 ) ) / 5
NestedParensExpr ==
    <<OpenParen, OpenParen, IntegerLiteral(1), Operator("+"), IntegerLiteral(2),
      CloseParen, Operator("*"), OpenParen, IntegerLiteral(3), Operator("-"),
      IntegerLiteral(4), CloseParen, CloseParen, Operator("/"), IntegerLiteral(5)>>

\* parser.rs test_parens: x = ( ( 1 + 2 ) * 3 )
TestParensExpr ==
    <<Identifier("x"), Operator("="), OpenParen, OpenParen, IntegerLiteral(1),
      Operator("+"), IntegerLiteral(2), CloseParen, Operator("*"),
      IntegerLiteral(3), CloseParen>>

NamedExpressions ==
    {ParenFirstExpr, FourLevelsExpr, TermsExpr, ChainExpr, NestedParensExpr,
     TestParensExpr}

\* toks is one of the token sequences parse_expression is run on: an
\* expression, then a semicolon or nothing
IsExpressionInput(toks) ==
    \E trailer \in {<<>>, <<Semicolon>>} :
        \/ \E ops \in SeqsUpTo(OperatorTokens, MaxOps) :
               \E parens \in ParenChoices(Len(ops) + 1) :
                   toks = ExprFrom(ops, parens, 1) \o trailer
        \/ \E e \in NamedExpressions : toks = e \o trailer

(***************************************************************************)
(* The pipeline of main as a state machine.  tokenize advances one loop    *)
(* iteration at a time; each later stage is one step.                      *)
(***************************************************************************)
Init ==
    /\ IsSource(src)
    /\ pc = "tokenize"
    /\ ptr = 0
    /\ tokens = <<>>
    /\ tokenize_result = NotRun
    /\ parser_pos = 0
    /\ parse_result = NotRun
    /\ check_result = NotRun
    /\ cfg_result = NotRun
    /\ asm_result = NotRun
    /\ cfg_build = NotRun

later_stages ==
    <<parser_pos, parse_result, check_result, cfg_result, asm_result, cfg_build>>

\* the loop skips a whitespace character
TokenizeWhitespace ==
    /\ pc = "tokenize"
    /\ ptr < Len(src)
    /\ is_whitespace(src[ptr + 1])
    /\ ptr' = ptr + 1
    /\ UNCHANGED <<src, pc, tokens, tokenize_result, later_stages>>

\* the loop pushes the next token
TokenizeToken ==
    /\ pc = "tokenize"
    /\ ptr < Len(src)
    /\ ~is_whitespace(src[ptr + 1])
    /\ LET r == next_token(SubSeq(src, ptr + 1, Len(src))) IN
       /\ r.kind = "Ok"
       /\ tokens' = Append(tokens, r.token)
       /\ ptr' = ptr + r.num_chars
    /\ UNCHANGED <<src, pc, tokenize_result, later_stages>>

\* no tokenizer matches: tokenize returns Err and its Vec is dropped
TokenizeError ==
    /\ pc = "tokenize"
    /\ ptr < Len(src)
    /\ ~is_whitespace(src[ptr + 1])
    /\ next_token(SubSeq(src, ptr + 1, Len(src))).kind = "Err"
    /\ tokenize_result' = [kind |-> "Err", position |-> ptr, character |-> src[ptr + 1]]
    /\ tokens' = <<>>
    /\ pc' = "failed"
    /\ UNCHANGED <<src, ptr, later_stages>>

\* the expect in tokenize_string_literal panics
TokenizePanic ==
    /\ pc = "tokenize"
    /\ ptr < Len(src)
    /\ ~is_whitespace(src[ptr + 1])
    /\ LET r == next_token(SubSeq(src, ptr + 1, Len(src))) IN
       /\ r.kind = "Panic"
       /\ tokenize_result' = r
    /\ tokens' = <<>>
    /\ pc' = "failed"
    /\ UNCHANGED <<src, ptr, later_stages>>

\* the loop ends: tokenize returns Ok(tokens)
TokenizeReturn ==
    /\ pc = "tokenize"
    /\ ptr >= Len(src)
    /\ tokenize_result' = [kind |-> "Ok", tokens |-> tokens]
    /\ pc' = "parse"
    /\ UNCHANGED <<src, ptr, tokens, later_stages>>

Parse ==
    /\ pc = "parse"
    /\ LET r == parse(tokenize_result.tokens) IN
       /\ parse_result' = IF r.kind = "Ok"
                          THEN [kind |-> "Ok", declarations |-> r.declarations]
                          ELSE IF r.kind = "Err" THEN [kind |-> "Err", err |-> r.err]
                          ELSE [kind |-> "Panic", msg |-> r.msg]
       /\ parser_pos' = r.pos
       /\ pc' = IF r.kind = "Ok" THEN "check_syntax" ELSE "failed"
    /\ UNCHANGED <<src, ptr, tokens, tokenize_result, check_result, cfg_result, asm_result,
                   cfg_build>>

CheckSyntax ==
    /\ pc = "check_syntax"
    /\ check_result' = check_syntax(parse_result.declarations)
    /\ pc' = IF check_result'.kind = "Ok" THEN "cfg" ELSE "failed"
    /\ UNCHANGED <<src, ptr, tokens, tokenize_result, parser_pos, parse_result,
                   cfg_result, asm_result, cfg_build>>

CfgFrom ==
    /\ pc = "cfg"
    /\ cfg_result' = ControlFlowGraph_from(parse_result.declarations)
    /\ pc' = IF cfg_result'.kind = "Ok" THEN "codegen" ELSE "failed"
    /\ UNCHANGED <<src, ptr, tokens, tokenize_result, parser_pos, parse_result,
                   check_result, asm_result, cfg_build>>

CfgToAsm ==
    /\ pc = "codegen"
    /\ asm_result' = cfg_to_asm(cfg_result.cfg)
    /\ pc' = IF asm_result'.kind = "Ok" THEN "done" ELSE "failed"
    /\ UNCHANGED <<src, ptr, tokens, tokenize_result, parser_pos, parse_result,
                   check_result, cfg_result, cfg_build>>

Next ==
    \/ TokenizeWhitespace
    \/ TokenizeToken
    \/ TokenizeError
    \/ TokenizePanic
    \/ TokenizeReturn
    \/ Parse
    \/ CheckSyntax
    \/ CfgFrom
    \/ CfgToAsm

Spec == Init /\ [][Next]_vars

(***************************************************************************)
(* parse and the stages after it, on a token sequence.                     *)
(***************************************************************************)
InitParse ==
    /\ IsTokenInput(tokens)
    /\ tokenize_result = [kind |-> "Ok", tokens |-> tokens]
    /\ src = <<>>
    /\ pc = "parse"
    /\ ptr = 0
    /\ parser_pos = 0
    /\ parse_result = NotRun
    /\ check_result = NotRun
    /\ cfg_result = NotRun
    /\ asm_result = NotRun
    /\ cfg_build = NotRun

NextParse == Parse \/ CheckSyntax \/ CfgFrom \/ CfgToAsm

SpecParse == InitParse /\ [][NextParse]_vars

(***************************************************************************)
(* parse_expression on a token sequence, with a fresh Parser.              *)
(***************************************************************************)
InitExpr ==
    /\ IsExpressionInput(tokens)
    /\ tokenize_result = [kind |-> "Ok", tokens |-> tokens]
    /\ src = <<>>
    /\ pc = "parse_expression"
    /\ ptr = 0
    /\ parser_pos = 0
    /\ parse_result = NotRun
    /\ check_result = NotRun
    /\ cfg_result = NotRun
    /\ asm_result = NotRun
    /\ cfg_build = NotRun

ParseExpression ==
    /\ pc = "parse_expression"
    /\ LET r == parse_expression(tokens, 0, 0) IN
       /\ parse_result' = IF r.ok THEN [kind |-> "Ok", expr |-> r.val]
                          ELSE [kind |-> "Err", err |-> r.err]
       /\ parser_pos' = IF r.ok THEN r.pos ELSE 0
    /\ pc' = "done"
    /\ UNCHANGED <<src, ptr, tokens, tokenize_result, check_result, cfg_result, asm_result,
                   cfg_build>>

NextExpr == ParseExpression

SpecExpr == InitExpr /\ [][NextExpr]_vars

(***************************************************************************)
(* Properties of tokenize.                                                 *)
(***************************************************************************)
\* the text that remains to be scanned
Remaining == SubSeq(src, ptr + 1, Len(src))

IsPrefix(p, s) == Len(p) <= Len(s) /\ SubSeq(s, 1, Len(p)) = p

\* the operator vocabulary, as a set
Vocabulary == {<<"+">>, <<"-">>, <<"=">>, <<"=", "=">>}

\* the longest member of the vocabulary that is a prefix of s
LongestOperator(s) ==
    CHOOSE op \in Vocabulary :
        /\ IsPrefix(op, s)
        /\ \A other \in Vocabulary : IsPrefix(other, s) => Len(other) <= Len(op)

OperatorStarts == pc = "tokenize" /\ \E op \in Vocabulary : IsPrefix(op, Remaining)

\* C4: where an operator starts, the loop pushes the longest operator of the
\* vocabulary {+, -, =, ==} that is a prefix of the remaining input and moves
\* past it, so == is one token and `+-===` gives + - == =
C4_LongestOperator ==
    /\ [][OperatorStarts =>
            /\ tokens' = Append(tokens, Operator(Str(LongestOperator(Remaining))))
            /\ ptr' = ptr + Len(LongestOperator(Remaining))]_vars
    /\ [](src = OperatorsText /\ tokenize_result # NotRun =>
            tokenize_result = [kind |-> "Ok",
                               tokens |-> <<Operator("+"), Operator("-"),
                                            Operator("=="), Operator("=")>>])

C4_Witness ==
    /\ src = OperatorsText
    /\ pc = "parse"
    /\ tokenize_result.tokens[3] = Operator("==")

IsWordChar(c) == is_alphanumeric(c) \/ c = "_"

\* a run of word characters starts at the scan position
RunStarts == pc = "tokenize" /\ ptr < Len(src) /\ IsWordChar(src[ptr + 1])

\* the maximal run of word characters at the scan position
MaximalRun ==
    LET n == CHOOSE k \in 1..(Len(src) - ptr) :
                 /\ \A i \in 1..k : IsWordChar(src[ptr + i])
                 /\ ptr + k < Len(src) => ~IsWordChar(src[ptr + k + 1])
    IN SubSeq(src, ptr + 1, ptr + n)

AllDigits(run) == \A i \in 1..Len(run) : is_digit(run[i])

RunDigits(run) == [i \in 1..Len(run) |-> DigitValue(run[i])]

\* the decimal value of a run of digits is at most 2^64 - 1
AtMostU64Max(run) ==
    LET n == StripZeros(RunDigits(run)) IN
    \/ Len(n) < 20
    \/ Len(n) = 20 /\ LexLeq(n, U64MaxDigits)

RECURSIVE ValueOf(_)
\* the decimal value of a sequence of digits
ValueOf(ds) == IF ds = <<>> THEN 0 ELSE 10 * ValueOf(SubSeq(ds, 1, Len(ds) - 1)) + ds[Len(ds)]

TheKeywords == {"int", "return", "if", "else"}

\* the token just pushed
Pushed == tokens'[Len(tokens')]

\* C5 as stated: a maximal run of word characters becomes one token, a
\* Keyword if it is a keyword, else an IntegerLiteral if it is all digits,
\* else an Identifier
C5_RunIsOneToken_Original ==
    [][RunStarts =>
        /\ Len(tokens') = Len(tokens) + 1
        /\ ptr' = ptr + Len(MaximalRun)
        /\ IF Str(MaximalRun) \in TheKeywords THEN Pushed = Keyword(Str(MaximalRun))
           ELSE IF AllDigits(MaximalRun) THEN Pushed.type = "IntegerLiteral"
           ELSE Pushed = Identifier(Str(MaximalRun))]_vars

\* C5, as tokenize has it: a maximal run of word characters becomes one
\* token, a Keyword if it is a keyword, else IntegerLiteral(v) if it is all
\* digits and its value v is at most 2^64 - 1, else an Identifier -- a run of
\* digits above u64::MAX included
C5_RunIsOneToken ==
    [][RunStarts =>
        /\ Len(tokens') = Len(tokens) + 1
        /\ SubSeq(tokens', 1, Len(tokens)) = tokens
        /\ ptr' = ptr + Len(MaximalRun)
        /\ IF Str(MaximalRun) \in TheKeywords THEN Pushed = Keyword(Str(MaximalRun))
           ELSE IF AllDigits(MaximalRun) /\ AtMostU64Max(MaximalRun)
           THEN Pushed = IntegerLiteral(ValueOf(StripZeros(RunDigits(MaximalRun))))
           ELSE Pushed = Identifier(Str(MaximalRun))]_vars

\* a run of digits above u64::MAX has been pushed as an Identifier
C5_Witness ==
    src = U64MaxPlusOneText /\ tokens = <<Identifier("18446744073709551616")>>

\* tokenize has failed
TokenizeFailed == pc = "failed" /\ parse_result = NotRun

\* C6: when tokenize cannot produce a token its outcome is a tokenization
\* error that carries the position of the offending character
C6_ErrorCarriesPosition ==
    TokenizeFailed =>
        /\ tokenize_result.kind = "Err"
        /\ tokenize_result.position = ptr
        /\ tokenize_result.character = src[ptr + 1]

(***************************************************************************)
(* Properties of the whole pipeline.                                       *)
(***************************************************************************)
\* the decimal spelling, without leading zeros, of the number a run of digits
\* denotes
Canonical(n) ==
    LET d == StripZeros(RunDigits(n)) IN
    IF d = <<>> THEN "0" ELSE Str([i \in 1..Len(d) |-> Digits[d[i] + 1]])

MainOf(statements, id) ==
    [kind |-> "Ok",
     declarations |-> <<Function("main", <<>>, TypeInt,
                                 [id |-> id, statements |-> statements])>>]

\* C1: on `int main() { int x = n; return x; }` every stage succeeds; the AST
\* is a function scope of id 1 with one VarDeclare and one Return, the CFG is
\* {0: [Assign(v1, n), Return(v1)]}, the assembly is the header,
\* `mov $n, %rbx` and `mov %rbx, %rax`
C1_ReturnPipeline ==
    \A n \in Literals : src = ReturnText(n) =>
        /\ pc # "failed"
        /\ tokenize_result # NotRun => tokenize_result.kind = "Ok"
        /\ parse_result # NotRun =>
              parse_result = MainOf(<<VarDeclare("x", TypeInt,
                                                 Some(IntLiteral(ValueOf(RunDigits(n))))),
                                      Return(Variable("x"))>>, 1)
        /\ check_result # NotRun => check_result.kind = "Ok"
        /\ cfg_result # NotRun =>
              cfg_result = [kind |-> "Ok",
                            cfg |-> (0 :> <<CfgAssign("v1", ValueOf(RunDigits(n))),
                                            CfgReturn("v1")>>)]
        /\ asm_result # NotRun =>
              asm_result = [kind |-> "Ok",
                            lines |-> <<".global main", "main:",
                                        "mov $" \o Canonical(n) \o ", %rbx",
                                        "mov %rbx, %rax">>]

C1_Witness ==
    /\ src = ReturnText(<<"1", "2", "3">>)
    /\ pc = "done"
    /\ asm_result.lines = <<".global main", "main:", "mov $123, %rbx", "mov %rbx, %rax">>

Add(l, r) == BinaryOperation("Add", l, r)
Mul(l, r) == BinaryOperation("Mul", l, r)
AssignTo(l, r) == BinaryOperation("Assign", l, r)

\* C3: the text of test_precedence tokenizes without error, each `*` as
\* Operator("*"), and parses to Assign(x, Add(1, Mul(2, 3))) followed by
\* Assign(x, Add(Mul(1, 2), 3))
C3_PrecedenceProgram ==
    src = PrecedenceText =>
        /\ pc # "failed"
        /\ tokenize_result # NotRun =>
              /\ tokenize_result.kind = "Ok"
              /\ tokenize_result.tokens[11] = Operator("*")
              /\ tokenize_result.tokens[17] = Operator("*")
        /\ parse_result # NotRun =>
              parse_result =
                  MainOf(<<Expression(AssignTo(Variable("x"),
                               Add(IntLiteral(1), Mul(IntLiteral(2), IntLiteral(3))))),
                           Expression(AssignTo(Variable("x"),
                               Add(Mul(IntLiteral(1), IntLiteral(2)), IntLiteral(3))))>>,
                         1)

(***************************************************************************)
(* Properties of parse: scope ids.                                         *)
(***************************************************************************)
RECURSIVE ChildrenFrom(_, _)
\* the branch scopes of the if statements of stmts[i..], in order
ChildrenFrom(stmts, i) ==
    IF i > Len(stmts) THEN <<>>
    ELSE (IF stmts[i].k = "If"
          THEN <<stmts[i].true_block>> \o stmts[i].false_block
          ELSE <<>>) \o ChildrenFrom(stmts, i + 1)

Children(scope) == ChildrenFrom(scope.statements, 1)

RECURSIVE IdsOf(_), IdsOfAll(_, _)
\* the id of a scope, then the ids of the scopes nested in it at any depth
IdsOf(scope) == <<scope.id>> \o IdsOfAll(Children(scope), 1)
IdsOfAll(scopes, i) ==
    IF i > Len(scopes) THEN <<>> ELSE IdsOf(scopes[i]) \o IdsOfAll(scopes, i + 1)

RECURSIVE OuterIsGreater(_)
\* every scope's id is greater than the id of every scope nested in it
OuterIsGreater(scope) ==
    /\ \A i \in 2..Len(IdsOf(scope)) : scope.id > IdsOf(scope)[i]
    /\ \A i \in DOMAIN Children(scope) : OuterIsGreater(Children(scope)[i])

ParsedScope == parse_result.declarations[1].scope

\* C7: in an AST parse returns, scope ids are pairwise distinct, a scope's id
\* is greater than that of every scope nested in it, the ids are exactly 1..N
\* for N scopes, and the function's scope has id N
C7_ScopeIdsPostOrder ==
    parse_result.kind = "Ok" =>
        LET ids == IdsOf(ParsedScope) IN
        /\ \A i, j \in DOMAIN ids : i # j => ids[i] # ids[j]
        /\ OuterIsGreater(ParsedScope)
        /\ Range(ids) = 1..Len(ids)
        /\ ParsedScope.id = Len(ids)

\* an if inside an if has been parsed
C7_Witness ==
    /\ parse_result.kind = "Ok"
    /\ \E i \in DOMAIN Children(ParsedScope) : Children(Children(ParsedScope)[i]) # <<>>
    /\ Len(IdsOf(ParsedScope)) = 3

RECURSIVE OwnIfElses(_, _), IfElsesOf(_), IfElsesOfAll(_, _)
\* for each if statement with an else among scope.statements[i..]: the ids of
\* the enclosing scope and of the two branches
OwnIfElses(scope, i) ==
    IF i > Len(scope.statements) THEN <<>>
    ELSE LET s == scope.statements[i] IN
         (IF s.k = "If" /\ s.false_block # None
          THEN <<[enclosing |-> scope.id, true_id |-> s.true_block.id,
                  false_id |-> s.false_block[1].id]>>
          ELSE <<>>) \o OwnIfElses(scope, i + 1)

\* the same for the if/else statements of a scope at any depth
IfElsesOf(scope) == OwnIfElses(scope, 1) \o IfElsesOfAll(Children(scope), 1)
IfElsesOfAll(scopes, i) ==
    IF i > Len(scopes) THEN <<>>
    ELSE IfElsesOf(scopes[i]) \o IfElsesOfAll(scopes, i + 1)

\* C8: for every if/else of a parsed AST the true branch's id is one more
\* than the false branch's and the enclosing scope's id is greater than both;
\* `if(x){return 1;}else{return 0;}` alone in main gives 2, 1 and 3
C8_TrueIsFalsePlusOne ==
    /\ parse_result.kind = "Ok" =>
          \A i \in DOMAIN IfElsesOf(ParsedScope) :
              LET s == IfElsesOf(ParsedScope)[i] IN
              /\ s.true_id = s.false_id + 1
              /\ s.enclosing > s.true_id
              /\ s.enclosing > s.false_id
    /\ (tokens = IfElseTokens /\ parse_result # NotRun) =>
          /\ parse_result.kind = "Ok"
          /\ ParsedScope.statements[1].true_block.id = 2
          /\ ParsedScope.statements[1].false_block[1].id = 1
          /\ ParsedScope.id = 3

C8_Witness ==
    /\ tokens = IfElseTokens
    /\ parse_result.kind = "Ok"
    /\ IdsOf(ParsedScope) = <<3, 2, 1>>

\* C9 as stated: the true branch is numbered before the false branch, so its
\* id is the smaller one
C9_TrueBeforeFalse_Original ==
    parse_result.kind = "Ok" =>
        \A i \in DOMAIN IfElsesOf(ParsedScope) :
            IfElsesOf(ParsedScope)[i].true_id < IfElsesOf(ParsedScope)[i].false_id

\* C9, amended: the false branch is numbered, once its own statements are
\* parsed, before the true branch is, so in every parsed AST the true branch's
\* id is greater than its false branch's
C9_FalseBeforeTrue ==
    parse_result.kind = "Ok" =>
        \A i \in DOMAIN IfElsesOf(ParsedScope) :
            IfElsesOf(ParsedScope)[i].false_id < IfElsesOf(ParsedScope)[i].true_id

\* an if/else whose false branch holds an if/else of its own
C9_Witness ==
    /\ parse_result.kind = "Ok"
    /\ Len(ParsedScope.statements) = 1
    /\ ParsedScope.statements[1].k = "If"
    /\ ParsedScope.statements[1].false_block # None
    /\ Len(Children(ParsedScope.statements[1].false_block[1])) = 2
    /\ ParsedScope.statements[1].true_block.id = 4

(***************************************************************************)
(* Properties of parse: errors.                                            *)
(***************************************************************************)
\* C10: parse returns a declaration list only when the tokens after the
\* `int main()` prefix are one brace-delimited block that uses every remaining
\* token
C10_WholeInputIsOneBlock ==
    parse_result.kind = "Ok" =>
        parser_pos = Len(tokenize_result.tokens) - Len(expected_prefix)

(***************************************************************************)
(* Properties of parse_expression.  The reference grammar                  *)
(*     E10 ::= E20 | E10 = E20        E20 ::= E30 | E20 == E30             *)
(*     E30 ::= E40 | E30 + E40 | E30 - E40                                 *)
(*     E40 ::= P | E40 times P | E40 over P                                *)
(*     P ::= integer | string | identifier | ( E10 )                       *)
(* read top down: an expression splits at its last operator of the lowest *)
(* precedence that stands outside all parentheses.                         *)
(***************************************************************************)
\* the precedence of an operator token in the reference grammar, 0 for a
\* token that is no operator
RefPrecedence(t) ==
    CASE t \in {Operator("*"), Operator("/")} -> 40
      [] t \in {Operator("+"), Operator("-")} -> 30
      [] t = Operator("==") -> 20
      [] t = Operator("=") -> 10
      [] OTHER -> 0

RefOp(t) ==
    CASE t = Operator("*") -> "Mul"
      [] t = Operator("/") -> "Div"
      [] t = Operator("+") -> "Add"
      [] t = Operator("-") -> "Sub"
      [] t = Operator("==") -> "Equals"
      [] t = Operator("=") -> "Assign"

\* how many parentheses are open before token i
ParenDepth(ts, i) ==
    Cardinality({j \in 1..(i - 1) : ts[j] = OpenParen})
    - Cardinality({j \in 1..(i - 1) : ts[j] = CloseParen})

RECURSIVE RefTree(_)
RefTree(ts) ==
    LET top == {i \in 1..Len(ts) : RefPrecedence(ts[i]) > 0 /\ ParenDepth(ts, i) = 0}
    IN IF top = {}
       THEN IF Len(ts) > 1 THEN RefTree(SubSeq(ts, 2, Len(ts) - 1))
            ELSE IF ts[1].type = "IntegerLiteral" THEN IntLiteral(ts[1].value)
            ELSE IF ts[1].type = "StringLiteral" THEN StringLiteralExpr(ts[1].text)
            ELSE Variable(ts[1].text)
       ELSE LET i == CHOOSE i \in top :
                        \A j \in top :
                            \/ RefPrecedence(ts[i]) < RefPrecedence(ts[j])
                            \/ RefPrecedence(ts[i]) = RefPrecedence(ts[j]) /\ j <= i
            IN BinaryOperation(RefOp(ts[i]), RefTree(SubSeq(ts, 1, i - 1)),
                               RefTree(SubSeq(ts, i + 1, Len(ts))))

\* the expression among the tokens: all of them but a closing semicolon
ExprPart ==
    IF tokens[Len(tokens)] = Semicolon THEN SubSeq(tokens, 1, Len(tokens) - 1)
    ELSE tokens

\* C2: on the tokens of an expression, parse_expression returns the tree of
\* the reference grammar (higher precedence binds first, equal precedence
\* groups to the left, a parenthesised expression is one operand) and leaves
\* the cursor right after the expression's last token
C2_ExpressionTree ==
    pc = "done" =>
        /\ parse_result = [kind |-> "Ok", expr |-> RefTree(ExprPart)]
        /\ parser_pos = Len(ExprPart)

\* `( 1 + x ) * 2 - "s" ;` has been parsed
C2_Witness ==
    /\ pc = "done"
    /\ tokens = ParenFirstExpr \o <<Semicolon>>
    /\ parse_result.expr =
           BinaryOperation("Sub",
               Mul(Add(IntLiteral(1), Variable("x")), IntLiteral(2)),
               StringLiteralExpr("s"))
    /\ parser_pos = 9

(***************************************************************************)
(* Inputs: functions with declarations, references and nested scopes.      *)
(***************************************************************************)
MaxStmts == 4

StmtPieces ==
    {"if 1", "if x", "else", "end", "int x", "T x", "int y", "return y", "x = y"}

StmtPieceTokens(piece) ==
    CASE piece = "if 1" ->
            <<Keyword("if"), OpenParen, IntegerLiteral(1), CloseParen, OpenBrace>>
      [] piece = "if x" ->
            <<Keyword("if"), OpenParen, Identifier("x"), CloseParen, OpenBrace>>
      [] piece = "else" -> <<CloseBrace, Keyword("else"), OpenBrace>>
      [] piece = "end" -> <<CloseBrace>>
      [] piece = "int x" -> <<Keyword("int"), Identifier("x"), Semicolon>>
      [] piece = "T x" -> <<Identifier("T"), Identifier("x"), Semicolon>>
      [] piece = "int y" ->
            <<Keyword("int"), Identifier("y"), Operator("="), Identifier("x"), Semicolon>>
      [] piece = "return y" -> <<Keyword("return"), Identifier("y"), Semicolon>>
      [] piece = "x = y" ->
            <<Identifier("x"), Operator("="), Identifier("y"), Semicolon>>
      [] piece = "int x = 1" ->
            <<Keyword("int"), Identifier("x"), Operator("="), IntegerLiteral(1), Semicolon>>
      [] piece = "return x" -> <<Keyword("return"), Identifier("x"), Semicolon>>

RECURSIVE StmtBodyOf(_)
\* the tokens of the pieces, then the `}` of main
StmtBodyOf(pieces) ==
    IF pieces = <<>> THEN <<CloseBrace>>
    ELSE StmtPieceTokens(Head(pieces)) \o StmtBodyOf(Tail(pieces))

\* symbol_table.rs test_st: x in the function scope, x of another type in the
\* true branch, y in the false branch; and bodies one piece longer than the
\* generated ones, with a name declared twice inside a branch; and a literal
\* declaration with a return of its variable, in both orders
NamedBodies ==
    {<<"int x", "if 1", "T x", "else", "int y", "end">>,
     <<"int x", "if 1", "int y", "int y", "end">>,
     <<"int x", "if x", "int x", "int x", "end">>,
     <<"int x", "if 1", "T x", "T x", "x = y", "end">>,
     <<"if 1", "int x", "int x", "int y", "end">>,
     <<"int x", "if 1", "if 1", "T x", "end", "end">>,
     <<"if 1", "if 1", "int x", "int x", "end", "end">>,
     <<"int x = 1", "return x">>,
     <<"return x", "int x = 1">>}

\* toks is one of the functions the symbol table and the check are run on
IsProgramInput(toks) ==
    \/ \E ps \in SeqsUpTo(StmtPieces, MaxStmts) :
           toks = expected_prefix \o <<OpenBrace>> \o StmtBodyOf(ps)
    \/ \E ps \in NamedBodies :
           toks = expected_prefix \o <<OpenBrace>> \o StmtBodyOf(ps)

(***************************************************************************)
(* parse, check_syntax and the stages after them, on such a function.      *)
(***************************************************************************)
InitScopes ==
    /\ IsProgramInput(tokens)
    /\ tokenize_result = [kind |-> "Ok", tokens |-> tokens]
    /\ src = <<>>
    /\ pc = "parse"
    /\ ptr = 0
    /\ parser_pos = 0
    /\ parse_result = NotRun
    /\ check_result = NotRun
    /\ cfg_result = NotRun
    /\ asm_result = NotRun
    /\ cfg_build = NotRun

SpecScopes == InitScopes /\ [][NextParse]_vars

(***************************************************************************)
(* C11: when from_function reports a duplicate declaration.                *)
(***************************************************************************)
RECURSIVE ScopesOf(_), ScopesOfAll(_, _)
\* a scope, then the scopes nested in it at any depth
ScopesOf(scope) == <<scope>> \o ScopesOfAll(Children(scope), 1)
ScopesOfAll(scopes, i) ==
    IF i > Len(scopes) THEN <<>> ELSE ScopesOf(scopes[i]) \o ScopesOfAll(scopes, i + 1)

\* the variable declarations that stand directly in a scope
DeclarationsIn(scope) ==
    {i \in DOMAIN scope.statements : scope.statements[i].k = "VarDeclare"}

\* the scope declares one name in two of its own statements
DeclaresTwice(scope) ==
    \E i, j \in DeclarationsIn(scope) :
        i < j /\ scope.statements[i].name = scope.statements[j].name

\* the function check_syntax was called on, and what from_function makes of it
CheckedFunction == parse_result.declarations[1]
BuiltTable == SymbolTable_from_function(CheckedFunction)

\* C11: from_function fails with a duplicate-declaration error exactly when
\* some scope of the function, the function's own or a branch scope at any
\* depth, declares one name twice
C11_DuplicateInAnyScope ==
    check_result # NotRun =>
        (BuiltTable.kind = "Err"
            <=> \E k \in DOMAIN ScopesOf(CheckedFunction.scope) :
                    DeclaresTwice(ScopesOf(CheckedFunction.scope)[k]))

\* C11: `int main() { if (1) { int x; int x; } }` went through check_syntax
C11_NestedDuplicate ==
    /\ check_result # NotRun
    /\ tokens = expected_prefix \o <<OpenBrace>>
                    \o StmtBodyOf(<<"if 1", "int x", "int x", "end">>)
    /\ BuiltTable.kind = "Ok"

(***************************************************************************)
(* C12: what get returns on a table built from a scope tree.               *)
(***************************************************************************)
RECURSIVE PathTo(_, _), PathIn(_, _, _)
\* the scopes from `scope` down to the scope of the given id, <<>> when that
\* scope is not `scope` and not nested in it
PathTo(scope, id) ==
    IF scope.id = id THEN <<scope>>
    ELSE IF PathIn(Children(scope), 1, id) = <<>> THEN <<>>
    ELSE <<scope>> \o PathIn(Children(scope), 1, id)
PathIn(scopes, i, id) ==
    IF i > Len(scopes) THEN <<>>
    ELSE IF PathTo(scopes[i], id) # <<>> THEN PathTo(scopes[i], id)
    ELSE PathIn(scopes, i + 1, id)

\* Some(VarInfo) of a scope's own first declaration of name, None without one
DeclaredIn(scope, name) ==
    LET own == {i \in DeclarationsIn(scope) : scope.statements[i].name = name} IN
    IF own = {} THEN None
    ELSE LET first == CHOOSE i \in own : \A j \in own : i <= j IN
         Some(VarInfo(name, scope.statements[first].var_type))

RECURSIVE NearestDeclaration(_, _)
\* the declaration of name in the last scope of the path that has one
NearestDeclaration(path, name) ==
    IF path = <<>> THEN None
    ELSE IF DeclaredIn(path[Len(path)], name) # None
    THEN DeclaredIn(path[Len(path)], name)
    ELSE NearestDeclaration(SubSeq(path, 1, Len(path) - 1), name)

VariableNames == {"x", "y"}

\* C12: in the table from_function built, get(s, name) is the VarInfo of the
\* declaration of name in the nearest of s and its enclosing scopes, and None
\* when none of them declares name
C12_GetNearestDeclaration ==
    (check_result # NotRun /\ BuiltTable.kind = "Ok") =>
        \A k \in DOMAIN ScopesOf(CheckedFunction.scope) : \A name \in VariableNames :
            LET s == ScopesOf(CheckedFunction.scope)[k] IN
            SymbolTable_get(BuiltTable.table, s.id, name)
                = NearestDeclaration(PathTo(CheckedFunction.scope, s.id), name)

\* C12: on `int x; if (1) { int y; int y; }` the table was built and get on
\* the branch scope does not find the x of the function scope
C12_EnclosingNotFound ==
    /\ check_result # NotRun
    /\ tokens = expected_prefix \o <<OpenBrace>>
                    \o StmtBodyOf(<<"int x", "if 1", "int y", "int y", "end">>)
    /\ BuiltTable.kind = "Ok"
    /\ SymbolTable_get(BuiltTable.table, 2, "x") = Some(VarInfo("x", TypeInt))
    /\ SymbolTable_get(BuiltTable.table, 1, "x") = None

(***************************************************************************)
(* C13: which reference check_syntax reports as undefined.                 *)
(***************************************************************************)
RECURSIVE ExprReferences(_)
\* the variable names an expression mentions, left operand before right
ExprReferences(expr) ==
    IF expr.k = "Variable" THEN <<expr.name>>
    ELSE IF expr.k = "BinaryOperation"
    THEN ExprReferences(expr.left) \o ExprReferences(expr.right)
    ELSE <<>>

\* the references of an expression that stands in the last scope of path
ReferencesAt(expr, path) ==
    [i \in DOMAIN ExprReferences(expr) |->
        [name |-> ExprReferences(expr)[i],
         scope_id |-> path[Len(path)].id,
         declared |-> NearestDeclaration(path, ExprReferences(expr)[i]) # None]]

RECURSIVE ReferencesFrom(_, _)
\* the references of the statements i.. of the last scope of path: statements
\* in order, an if's condition, then its true branch, then its false branch
ReferencesFrom(path, i) ==
    LET scope == path[Len(path)] IN
    IF i > Len(scope.statements) THEN <<>>
    ELSE LET s == scope.statements[i] IN
         (IF s.k \in {"Return", "Expression"} THEN ReferencesAt(s.expr, path)
          ELSE IF s.k = "VarDeclare"
          THEN (IF s.value = None THEN <<>> ELSE ReferencesAt(s.value[1], path))
          ELSE IF s.k = "If"
          THEN ReferencesAt(s.condition, path)
               \o ReferencesFrom(Append(path, s.true_block), 1)
               \o (IF s.false_block = None THEN <<>>
                   ELSE ReferencesFrom(Append(path, s.false_block[1]), 1))
          ELSE <<>>)
         \o ReferencesFrom(path, i + 1)

\* every reference of the checked function, in traversal order
References == ReferencesFrom(<<CheckedFunction.scope>>, 1)

\* the positions of the references to a name no scope in reach declares
Undeclared == {i \in DOMAIN References : ~References[i].declared}

FirstUndeclared == References[CHOOSE i \in Undeclared : \A j \in Undeclared : i <= j]

\* C13: for a function whose own scope declares no name twice, check_syntax
\* fails exactly when some reference names a variable declared neither in its
\* scope nor in an enclosing one, and the error names the first such
\* reference and the id of the scope it stands in
C13_FirstUndeclaredReference ==
    (check_result # NotRun /\ ~DeclaresTwice(CheckedFunction.scope)) =>
        IF Undeclared = {} THEN check_result.kind = "Ok"
        ELSE check_result =
                 [kind |-> "Err",
                  err |-> "Undefined variable " \o FirstUndeclared.name
                              \o " in scope " \o fmt_u64(FirstUndeclared.scope_id)]

\* C13: on `if (1) { int x; int x; int y = x; }` check_syntax reported the x
\* of the initializer, which the branch itself declares
C13_DeclaredReported ==
    /\ tokens = expected_prefix \o <<OpenBrace>>
                    \o StmtBodyOf(<<"if 1", "int x", "int x", "int y", "end">>)
    /\ check_result = [kind |-> "Err", err |-> "Undefined variable x in scope 1"]
    /\ Undeclared = {}

(***************************************************************************)
(* ControlFlowGraph::from, one statement of its loop at a time, on the     *)
(* statements of a main function, and cfg_to_asm on what it returns.       *)
(***************************************************************************)
MaxCfgStmts == 4

\* cfg.rs tests build their statements directly: declarations with a literal,
\* without an initializer and with a variable initializer, returns of a
\* literal and of a variable, an if and an expression statement
CfgStatements ==
    {VarDeclare("x", TypeInt, Some(IntLiteral(1))),
     VarDeclare("y", TypeInt, Some(IntLiteral(2))),
     VarDeclare("x", TypeInt, None),
     VarDeclare("y", TypeInt, Some(Variable("x"))),
     Return(IntLiteral(3)),
     Return(Variable("x")),
     Return(Variable("y")),
     If(IntLiteral(1), [id |-> 1, statements |-> <<>>], None),
     Expression(Variable("x"))}

\* longer bodies: alternating declarations of x and y, then a return, so that
\* the fourth to the seventh generated names are reached
NamedStatements ==
    LET dx == VarDeclare("x", TypeInt, Some(IntLiteral(1)))
        dy == VarDeclare("y", TypeInt, Some(IntLiteral(2)))
    IN {<<dx, dy, dx, dy, Return(Variable("y"))>>,
        <<dx, dy, dx, dy, dx, Return(Variable("x"))>>,
        <<dx, dy, dx, dy, dx, Return(IntLiteral(3))>>,
        <<dx, dy, dx, dy, dx, dy, Return(Variable("x"))>>,
        <<dx, dy, dx, dy, dx, Return(Variable("x")), dy>>,
        <<dx, dy, dx, dy, dx, dy, Return(IntLiteral(3))>>,
        <<Return(IntLiteral(3)), Return(IntLiteral(3)), Return(IntLiteral(3)),
          Return(IntLiteral(3)), Return(IntLiteral(3))>>}

\* from has checked its assertions and made a new context and an empty block
InitCfg ==
    /\ \E ss \in SeqsUpTo(CfgStatements, MaxCfgStmts) \cup NamedStatements :
           parse_result = MainOf(ss, 2)
    /\ tokens = <<>>
    /\ tokenize_result = NotRun
    /\ src = <<>>
    /\ pc = "cfg_loop"
    /\ ptr = 0
    /\ parser_pos = 0
    /\ check_result = NotRun
    /\ cfg_result = NotRun
    /\ asm_result = NotRun
    /\ cfg_build = [context |-> CFGBuildContext_new, block |-> <<>>, i |-> 1]

\* one turn of the loop: process(stmt, &mut context).expect("") and append
ProcessStatement ==
    /\ pc = "cfg_loop"
    /\ cfg_build.i <= Len(parse_result.declarations[1].scope.statements)
    /\ LET r == process(parse_result.declarations[1].scope.statements[cfg_build.i],
                        cfg_build.context)
       IN IF r.kind = "Ok"
          THEN /\ cfg_build' = [context |-> r.context,
                                block |-> cfg_build.block \o r.stmts,
                                i |-> cfg_build.i + 1]
               /\ UNCHANGED <<pc, cfg_result>>
          ELSE /\ cfg_result' = IF r.kind = "Err" THEN CfgPanic("expect: " \o r.err) ELSE r
               /\ cfg_build' = IF r.kind = "Err"
                               THEN [cfg_build EXCEPT !.context = r.context]
                               ELSE cfg_build
               /\ pc' = "failed"
    /\ UNCHANGED <<src, ptr, tokens, tokenize_result, parser_pos, parse_result,
                   check_result, asm_result>>

\* the loop is over: from returns the graph with the block under key 0
CfgFromReturn ==
    /\ pc = "cfg_loop"
    /\ cfg_build.i > Len(parse_result.declarations[1].scope.statements)
    /\ cfg_result' = [kind |-> "Ok", cfg |-> (0 :> cfg_build.block)]
    /\ pc' = "codegen"
    /\ UNCHANGED <<src, ptr, tokens, tokenize_result, parser_pos, parse_result,
                   check_result, asm_result, cfg_build>>

NextCfg == ProcessStatement \/ CfgFromReturn \/ CfgToAsm

SpecCfg == InitCfg /\ [][NextCfg]_vars

(***************************************************************************)
(* C14: the instructions declarations and returns are lowered to.          *)
(***************************************************************************)
BuildStatements == parse_result.declarations[1].scope.statements

\* an int declaration with an integer-literal initializer
IsLiteralDeclaration(stmt) ==
    /\ stmt.k = "VarDeclare"
    /\ stmt.var_type = TypeInt
    /\ stmt.value # None
    /\ stmt.value[1].k = "IntLiteral"

IsReturnOf(stmt, kind) == stmt.k = "Return" /\ stmt.expr.k = kind

RECURSIVE NamesGenerated(_, _)
\* how many names the first n statements generate: one for each declaration
\* and one for each return of a literal
NamesGenerated(stmts, n) ==
    IF n = 0 THEN 0
    ELSE NamesGenerated(stmts, n - 1)
         + (IF stmts[n].k = "VarDeclare" \/ IsReturnOf(stmts[n], "IntLiteral")
            THEN 1 ELSE 0)

\* the k-th generated name
GeneratedName(k) == "v" \o fmt_u64(k)

\* the position of the last declaration of name among the first n statements,
\* 0 without one
LastDeclaration(stmts, n, name) ==
    LET ds == {j \in 1..n : stmts[j].k = "VarDeclare" /\ stmts[j].name = name} IN
    IF ds = {} THEN 0 ELSE CHOOSE j \in ds : \A l \in ds : l <= j

\* the first n statements are literal declarations, returns of a literal and
\* returns of a variable declared before the return
IsDeclarationsAndReturns(stmts, n) ==
    \A j \in 1..n :
        \/ IsLiteralDeclaration(stmts[j])
        \/ IsReturnOf(stmts[j], "IntLiteral")
        \/ /\ IsReturnOf(stmts[j], "Variable")
           /\ LastDeclaration(stmts, j - 1, stmts[j].expr.name) > 0

\* the instructions of statement i, with names counted from the statements
LoweredStatement(stmts, i) ==
    IF stmts[i].k = "VarDeclare"
    THEN <<CfgAssign(GeneratedName(NamesGenerated(stmts, i)), stmts[i].value[1].value)>>
    ELSE IF IsReturnOf(stmts[i], "IntLiteral")
    THEN <<CfgAssign(GeneratedName(NamesGenerated(stmts, i)), stmts[i].expr.value),
           CfgReturn(GeneratedName(NamesGenerated(stmts, i)))>>
    ELSE <<CfgReturn(GeneratedName(NamesGenerated(stmts,
                LastDeclaration(stmts, i - 1, stmts[i].expr.name))))>>

RECURSIVE LoweredUpTo(_, _)
LoweredUpTo(stmts, n) ==
    IF n = 0 THEN <<>> ELSE LoweredUpTo(stmts, n - 1) \o LoweredStatement(stmts, n)

\* C14: a turn of the loop on a sequence of literal declarations and returns
\* leaves the block holding, in statement order, Assign(vk, literal) for the
\* declaration that generates the k-th name, Assign(vk, literal) and
\* Return(vk) for a return of a literal, and the one instruction Return(name
\* of the variable's declaration) for a return of a variable, which changes
\* neither the counter nor the name map
C14_LoweringInOrder ==
    [][(/\ pc = "cfg_loop"
        /\ cfg_build.i <= Len(BuildStatements)
        /\ IsDeclarationsAndReturns(BuildStatements, cfg_build.i))
       => (/\ pc' = "cfg_loop"
           /\ cfg_build'.i = cfg_build.i + 1
           /\ cfg_build'.block = LoweredUpTo(BuildStatements, cfg_build.i)
           /\ cfg_build'.context.var_counter
                  = NamesGenerated(BuildStatements, cfg_build.i)
           /\ IsReturnOf(BuildStatements[cfg_build.i], "Variable")
                  => cfg_build'.context = cfg_build.context)]_vars

\* C14: `int x = 1; int y = 2; return x; return 3;` was lowered to the end
C14_Witness ==
    /\ pc = "codegen"
    /\ BuildStatements = <<VarDeclare("x", TypeInt, Some(IntLiteral(1))),
                           VarDeclare("y", TypeInt, Some(IntLiteral(2))),
                           Return(Variable("x")), Return(IntLiteral(3))>>
    /\ cfg_build.block = <<CfgAssign("v1", 1), CfgAssign("v2", 2), CfgReturn("v1"),
                           CfgAssign("v3", 3), CfgReturn("v3")>>
    /\ cfg_build.context = [var_counter |-> 3, var_map |-> ("x" :> "v1") @@ ("y" :> "v2")]
    /\ cfg_result = [kind |-> "Ok", cfg |-> (0 :> cfg_build.block)]

(***************************************************************************)
(* C15: how the build ends on a statement it does not lower.               *)
(***************************************************************************)
\* an if statement, an expression statement, or an int declaration whose
\* initializer is not an integer literal
IsNotLowered(stmt) ==
    \/ stmt.k \in {"If", "Expression"}
    \/ /\ stmt.k = "VarDeclare"
       /\ stmt.var_type = TypeInt
       /\ stmt.value # None
       /\ stmt.value[1].k # "IntLiteral"

\* C15: once the build of a main holding such a statement has ended, from
\* has returned an error value to its caller: it has not panicked and has
\* not returned a graph
C15_LoweringErrorReturned ==
    (/\ pc # "cfg_loop"
     /\ \E j \in DOMAIN BuildStatements : IsNotLowered(BuildStatements[j]))
        => cfg_result.kind = "Err"

\* C15: the build of a main whose only statement is `if (1) { }` ended in the
\* panic of expect("") on process's Err("Not Implemented")
C15_IfPanics ==
    /\ pc = "failed"
    /\ BuildStatements = <<If(IntLiteral(1), [id |-> 1, statements |-> <<>>], None)>>
    /\ cfg_result = CfgPanic("expect: Not Implemented")

(***************************************************************************)
(* C16: the registers of the five names.                                   *)
(***************************************************************************)
MappedNames == {"v1", "v2", "v3", "v4", "v5"}

\* the register each of the five names stands for
RealRegister ==
    ("v1" :> "rbx") @@ ("v2" :> "rcx") @@ ("v3" :> "rdx") @@ ("v4" :> "r8")
        @@ ("v5" :> "r9")

\* the text var_to_reg's register is written as
RegisterText(var) == RegisterGP_fmt(var_to_reg(var).reg)

\* the line an instruction on one of the five names is to be emitted as
ExpectedLine(s) ==
    IF s.k = "Assign" THEN "mov $" \o fmt_u64(s.value) \o ", %" \o RealRegister[s.var]
    ELSE "mov %" \o RealRegister[s.var] \o ", %rax"

\* C16: in every output of cfg_to_asm each name of the block is one of
\* v1..v5 and is written as a non-empty register name, different from rax and
\* from that of every other name of the block, and the line of an
\* Assign(vi, n) is `mov $n, %reg_i` and that of a Return(vi) is
\* `mov %reg_i, %rax`, reg_i being rbx, rcx, rdx, r8, r9
C16_RegistersNamed ==
    asm_result.kind = "Ok" =>
        \A j \in DOMAIN cfg_result.cfg[0] :
            LET s == cfg_result.cfg[0][j] IN
            /\ s.var \in MappedNames
            /\ RegisterText(s.var) \notin {"", "rax"}
            /\ \A l \in DOMAIN cfg_result.cfg[0] :
                   cfg_result.cfg[0][l].var # s.var
                       => RegisterText(cfg_result.cfg[0][l].var) # RegisterText(s.var)
            /\ asm_result.lines[Len(ASM_HEADER) + j] = ExpectedLine(s)

\* C16: the fourth name was assigned and returned, and both lines name no
\* register
C16_EmptyRegister ==
    /\ asm_result.kind = "Ok"
    /\ Len(cfg_result.cfg[0]) >= 5
    /\ cfg_result.cfg[0][4] = CfgAssign("v4", 2)
    /\ cfg_result.cfg[0][5] = CfgReturn("v4")
    /\ asm_result.lines[Len(ASM_HEADER) + 4] = "mov $2, %"
    /\ asm_result.lines[Len(ASM_HEADER) + 5] = "mov %, %rax"

(***************************************************************************)
(* C17: cfg_to_asm on a name outside v1..v5.                               *)
(***************************************************************************)
\* the positions of the block's instructions on a name outside v1..v5
Unmapped(block) == {j \in DOMAIN block : block[j].var \notin MappedNames}

FirstUnmapped(block) ==
    block[CHOOSE j \in Unmapped(block) : \A l \in Unmapped(block) : j <= l]

Returns(block) == {j \in DOMAIN block : block[j].k = "Return"}

\* C18: when main's pipeline has compiled a program, block 0 has a Return,
\* nothing stands after the block's first Return, and the last assembly line
\* is the move of that Return's register into %rax
C18_EndsWithReturnMove ==
    (pc = "done" /\ asm_result.kind = "Ok") =>
        LET block == cfg_result.cfg[0] IN
        /\ Returns(block) = {Len(block)}
        /\ block # <<>>
        /\ block[Len(block)].var \in MappedNames
        /\ asm_result.lines[Len(asm_result.lines)]
               = "mov %" \o RealRegister[block[Len(block)].var] \o ", %rax"

\* C18: `int main() { int x = 1; }` was compiled and the output ends with the
\* declaration's move
C18_NoReturnCompiled ==
    /\ pc = "done"
    /\ src = ReturnHead \o <<"1", ";", " ", "}">>
    /\ asm_result = [kind |-> "Ok", lines |-> ASM_HEADER \o <<"mov $1, %rbx">>]

(***************************************************************************)
(* C19: the bindings of a build context.                                   *)
(***************************************************************************)
\* C19: no step of a build changes the generated name a source name is
\* already bound to, a step that processes another declaration of that source
\* name included
C19_BindingNeverChanges ==
    [][\A name \in DOMAIN cfg_build.context.var_map :
           /\ name \in DOMAIN cfg_build'.context.var_map
           /\ cfg_build'.context.var_map[name] = cfg_build.context.var_map[name]]_vars

\* C19: cfg.rs test_cfg_var_declare: the declaration of x was processed
\* twice in one context, giving v1 then v2, and x is now bound to v2
C19_Rebound ==
    /\ BuildStatements = <<VarDeclare("x", TypeInt, Some(IntLiteral(1))),
                           VarDeclare("x", TypeInt, Some(IntLiteral(1)))>>
    /\ cfg_build.block = <<CfgAssign("v1", 1), CfgAssign("v2", 1)>>
    /\ cfg_build.context = [var_counter |-> 2, var_map |-> ("x" :> "v2")]

(***************************************************************************)
(* C20: what a returned table holds for the branch scopes.                 *)
(***************************************************************************)
\* the table links the scope to the scope before it on the path and has an
\* entry for each name the scope declares
HoldsScope(table, path) ==
    LET scope == path[Len(path)] IN
    /\ scope.id \in DOMAIN table.scope_tree
    /\ table.scope_tree[scope.id] = path[Len(path) - 1].id
    /\ \A i \in DeclarationsIn(scope) :
           <<scope.id, scope.statements[i].name>> \in DOMAIN table.vars

\* C20: a table from_function returns holds, for every branch scope of the
\* function at any depth, the link from its id to the id of the scope that
\* immediately encloses it and an entry for every variable it declares
C20_BranchScopesHeld ==
    (check_result # NotRun /\ BuiltTable.kind = "Ok") =>
        \A k \in 2..Len(ScopesOf(CheckedFunction.scope)) :
            HoldsScope(BuiltTable.table,
                       PathTo(CheckedFunction.scope, ScopesOf(CheckedFunction.scope)[k].id))

\* C20: check_syntax returned the table of `int x; if (x) { int x; int x; }`:
\* it holds the function scope's x and nothing of the branch scope
C20_BranchMissing ==
    /\ tokens = expected_prefix \o <<OpenBrace>>
                    \o StmtBodyOf(<<"int x", "if x", "int x", "int x", "end">>)
    /\ check_result.kind = "Ok"
    /\ check_result.table = BuiltTable.table
    /\ DOMAIN check_result.table.vars = {<<2, "x">>}
    /\ DOMAIN check_result.table.scope_tree = {}

(***************************************************************************)
(* C21: the type of a declaration written `char` or `void`.                *)
(***************************************************************************)
\* the declaration `<type word> c;` alone in main, as parse is to return it
OneDeclaration(var_type) == MainOf(<<VarDeclare("c", var_type, None)>>, 1)

\* C21: from source text `char c;` parses to a VarDeclare of type Char and
\* `void c;` to one of type Void, as `int c;` does to Int and `T c;` to
\* UserDefined("T"); no declaration of a parsed function has the type
\* UserDefined("int"), UserDefined("char") or UserDefined("void")
C21_CharAndVoidTypes ==
    parse_result # NotRun =>
        /\ src = DeclarationText(<<"i", "n", "t">>) => parse_result = OneDeclaration(TypeInt)
        /\ src = DeclarationText(<<"T">>) => parse_result = OneDeclaration(UserDefined("T"))
        /\ src = DeclarationText(<<"c", "h", "a", "r">>)
               => parse_result = OneDeclaration(TypeChar)
        /\ src = DeclarationText(<<"v", "o", "i", "d">>)
               => parse_result = OneDeclaration(TypeVoid)
        /\ parse_result.kind = "Ok" =>
               \A k \in DOMAIN ScopesOf(ParsedScope) :
                   \A i \in DeclarationsIn(ScopesOf(ParsedScope)[k]) :
                       ScopesOf(ParsedScope)[k].statements[i].var_type
                           \notin {UserDefined("int"), UserDefined("char"),
                                   UserDefined("void")}

\* C21: `int main() { char c; }` was tokenized with `char` as an identifier
\* and parsed to a declaration of the user-defined type "char"
C21_CharIsUserDefined ==
    /\ src = DeclarationText(<<"c", "h", "a", "r">>)
    /\ tokenize_result.kind = "Ok"
    /\ tokenize_result.tokens[6] = Identifier("char")
    /\ parse_result = OneDeclaration(UserDefined("char"))

(***************************************************************************)
(* C22: references that stand before the declaration of their variable.    *)
(***************************************************************************)
\* some name the expression mentions is not among the declared ones
MentionsUndeclared(expr, declared) ==
    \E i \in DOMAIN ExprReferences(expr) : ExprReferences(expr)[i] \notin declared

RECURSIVE UsedBeforeDeclared(_, _, _)
\* some reference in the statements i.. of the scope, or in a branch under
\* them, names a variable that no earlier statement of its own or of an
\* enclosing scope declares; `declared` holds the names declared so far
UsedBeforeDeclared(scope, i, declared) ==
    IF i > Len(scope.statements) THEN FALSE
    ELSE LET s == scope.statements[i] IN
         \/ /\ s.k \in {"Return", "Expression"}
            /\ MentionsUndeclared(s.expr, declared)
         \/ /\ s.k = "VarDeclare"
            /\ s.value # None
            /\ MentionsUndeclared(s.value[1], declared)
         \/ /\ s.k = "If"
            /\ \/ MentionsUndeclared(s.condition, declared)
               \/ UsedBeforeDeclared(s.true_block, 1, declared)
               \/ /\ s.false_block # None
                  /\ UsedBeforeDeclared(s.false_block[1], 1, declared)
         \/ UsedBeforeDeclared(scope, i + 1,
                IF s.k = "VarDeclare" THEN declared \cup {s.name} ELSE declared)

\* the function's own statements are int declarations with a literal
\* initializer and returns of a literal or of a variable
IsLiteralsAndReturns(stmts) ==
    \A j \in DOMAIN stmts :
        \/ IsLiteralDeclaration(stmts[j])
        \/ IsReturnOf(stmts[j], "IntLiteral")
        \/ IsReturnOf(stmts[j], "Variable")

\* C22: in a program check_syntax accepts, every reference stands after a
\* declaration of its variable in its own or an enclosing scope; and the
\* build of an accepted program of literal declarations and returns ends
\* with a graph, not with a panic
C22_DeclaredBeforeUse ==
    check_result.kind = "Ok" =>
        /\ ~UsedBeforeDeclared(CheckedFunction.scope, 1, {})
        /\ (cfg_result # NotRun /\ IsLiteralsAndReturns(CheckedFunction.scope.statements))
               => cfg_result.kind = "Ok"

\* C22: check_syntax accepted `return x; int x = 1;` and the build panicked
\* in the lookup of x
C22_UseBeforeDeclaration ==
    /\ tokens = expected_prefix \o <<OpenBrace>>
                    \o StmtBodyOf(<<"return x", "int x = 1">>)
    /\ check_result.kind = "Ok"
    /\ cfg_result = CfgPanic("expect: lookup")

====
